---- MODULE Spec2Model ----
(***************************************************************************)
(* The look-ahead step sequencer (Sequencer), the trigger dispatch of the  *)
(* AudioEngine and the hi-hat voice bookkeeping (HiHatSynth) of CrossBeat. *)
(*                                                                         *)
(* Spec is the transport: start, stop, updatePattern and the interval      *)
(* timer, each trigger call recorded as it is handed to the engine.        *)
(* SpecHiHat is the hi-hat engine under every order of trigger calls,      *)
(* cleanup timeouts, parameter changes and dispose; SpecHiHatFair adds     *)
(* that the clock advances and timeouts fire, SpecHiHatStops repeated      *)
(* calls of voice.stop(), SpecHiHatParams changes of every parameter.      *)
(* SpecNotify is the transport with a consumer that passes onStep: the     *)
(* timeouts scheduleStep sets and their delivery.  SpecVoices is the       *)
(* transport playing a hi-hat pattern together with the engine's voices.   *)
(* SpecResize swaps patterns of different step counts, SpecEngines         *)
(* triggers the other engines one call at a time, and SpecStore is the     *)
(* pattern store with JSON import and share links.  SpecInitialize is      *)
(* AudioEngine.initialize() with calls that overlap at its await,          *)
(* SpecDispose the transport and triggerDrum() while the AudioEngine is    *)
(* disposed and initialized again.  SpecKnobs is the two hi-hat tracks of  *)
(* the default pattern under knob changes and triggers, SpecKnobRange      *)
(* every engine triggered with parameters from the knob ranges.            *)
(*                                                                         *)
(* Units.  Clock values and durations are integers counting half           *)
(* milliseconds (0.1 s = 200), so that secondsPerStep = 15/bpm s and the   *)
(* swing offset are exact for the tempi used.  swing, probability, track   *)
(* volume and the Math.random() draw are counted in tenths (0..10).        *)
(* Ramp targets of the engines are counted in thousandths.  In the store   *)
(* bpm and velocity are integers, swing and volume tenths, the             *)
(* probability of a step hundredths, and the decay of a track's            *)
(* synthParams milliseconds.                                               *)
(***************************************************************************)
EXTENDS Integers, Sequences, FiniteSets, TLC

\* ---------------------------------------------------------------- bounds
NumTracks == 2
NumSteps == 4
MaxTime == 600
MaxLate == 6
MaxVoices == 3
HhMaxTime == 600
MaxQueued == 4
MaxStops == 2
MaxNameLen == 2

\* ------------------------------------------------------ program constants
lookahead == 50
scheduleAheadTime == 200
DefaultChokeGroup == 0
DefaultDecay == 100
endTimeTail == 100
cleanupGrace == 200
EnvelopeFloor == 1

\* ------------------------------------------------------------- the state
VARIABLES
    isPlaying,        \* Sequencer.isPlaying
    currentStep,      \* Sequencer.currentStep
    nextStepTime,     \* Sequencer.nextStepTime
    timerID,          \* Sequencer.timerID: 0 is null, 1 the id of the interval
    pattern,          \* Sequencer.pattern: NoPattern is null
    onStepCallback,   \* Sequencer.onStepCallback: 0 is null
    liveTimers,       \* number of interval timers window holds for the Sequencer
    initialized,      \* AudioEngine.initialized
    now,              \* AudioContext.currentTime of AudioEngine.context
    lastPass,         \* what the last run of schedule() since start() dispatched, in order
    passNow,          \* the clock value that run of schedule() read, -1 if none
    passPattern,      \* the pattern that run of schedule() read, NoPattern if none
    startTime,        \* history: the clock value read by the last effective start()
    stepsDone,        \* history: nextStep() calls since the last effective start()
    prevStep,         \* history: index of the last step dispatched before lastPass, -1 if none
    swapped,          \* history: updatePattern() changed the pattern since start()
    hasStopped,       \* history: a stop() has ended a run
    startRefused,     \* history: a start() found the audio engine not initialized
    hhVoices,         \* HiHatSynth.voices: the set of active voice ids
    hhChoke,          \* HiHatSynth.activeChokeGroup: choke group -> voice id
    hhParameters,     \* HiHatSynth.parameters: parameter name -> value
    hhStopped,        \* per voice id: the stop times passed to its noise source, in order
    hhDisconnected,   \* the voice ids whose nodes were disconnected
    hhGroupOf,        \* per voice id: the choke group captured by its stop closure
    hhEndTime,        \* per voice id: DrumVoice.endTime
    hhConnected,      \* is HiHatSynth.outputNode connected to the master gain?
    hhTimers,         \* the pending auto-cleanup timeouts: voice id and earliest firing time
    hhLast,           \* history: what the last HiHatSynth.trigger did, voice 0 if none
    uiQueue,          \* the pending onStep timeouts set by scheduleStep, in the order set
    uiStep,           \* App: the step last handed to setLocalCurrentStep (0 after a stop)
    engLast,          \* history: what the last synth.trigger call on any engine built
    engVoices,        \* per synth key but the hi-hat's: the engine's voices set (voice ids)
    engStopped,       \* the ids of the engine voices whose stop() was called
    engCreated,       \* the number of voices those engines have registered so far
    ctxOpen,          \* the AudioContexts created and not closed
    masterGains,      \* the master gains created and not disconnected
    engineSets,       \* the sets of 8 engines created and not disposed
    audioHeld,        \* do AudioEngine.context, masterGain and synths hold live objects?
    initAwaiting,     \* the initialize() calls waiting for context.resume()
    drumRefused,      \* history: a triggerDrum() call returned before synth.trigger
    trackUsed,        \* history, per track: what its last hi-hat trigger passed and read
    engSched,         \* history: the stop times, endTime and timeout of the voice of engLast
    storePattern,     \* usePatternStore: state.pattern
    storeBpm,         \* usePatternStore: state.bpm
    storeIsPlaying,   \* usePatternStore: state.isPlaying
    storeCurrentStep, \* usePatternStore: state.currentStep
    storeOrigin       \* history: how the pattern of the store was last installed

uiVars == <<uiQueue, uiStep>>
seqVars == <<isPlaying, currentStep, nextStepTime, timerID, pattern, onStepCallback,
             liveTimers, initialized, now, lastPass, passNow, passPattern, startTime,
             stepsDone, prevStep, swapped, hasStopped, startRefused, uiVars>>
hhVars == <<hhVoices, hhChoke, hhParameters, hhStopped, hhDisconnected, hhGroupOf,
            hhEndTime, hhTimers, hhLast, hhConnected>>
engVars == <<engLast, engVoices, engStopped, engCreated, ctxOpen, masterGains, engineSets,
             audioHeld, initAwaiting, drumRefused, trackUsed, engSched>>
storeVars == <<storePattern, storeBpm, storeIsPlaying, storeCurrentStep, storeOrigin>>
\* The state that neither the Sequencer nor the HiHatSynth writes.
restVars == <<engVars, storeVars>>
vars == <<seqVars, hhVars, restVars>>

\* -------------------------------------------------------------- patterns
NoPattern == [bpm |-> 0, swing |-> 0, steps |-> 0, tracks |-> <<>>]

NoParams == [k \in {} |-> 0]

\* The step at 0-based index i of a track of the given kind.
StepOf(kind, i) ==
    CASE kind = "kick" ->
           [active |-> (i % 2 = 0), velocity |-> 100, probability |-> 10,
            microTiming |-> 0, parameters |-> NoParams]
      [] kind = "hat" ->
           [active |-> TRUE, velocity |-> 80,
            probability |-> (IF i % 2 = 0 THEN 10 ELSE 0),
            microTiming |-> 0,
            parameters |-> (IF i = 0 THEN [k \in {"decay"} |-> 300] ELSE NoParams)]
      [] kind = "snare" ->
           [active |-> TRUE, velocity |-> 127, probability |-> 10,
            microTiming |-> 0, parameters |-> NoParams]
      [] kind = "clap" ->
           [active |-> TRUE, velocity |-> 64, probability |-> 5,
            microTiming |-> 0, parameters |-> NoParams]
      [] kind = "cowbell" ->
           [active |-> TRUE, velocity |-> 100, probability |-> 10,
            microTiming |-> 0, parameters |-> NoParams]
      [] kind = "rim" ->
           [active |-> TRUE, velocity |-> (IF i = 1 THEN 0 ELSE 90), probability |-> 10,
            microTiming |-> 0,
            parameters |-> (IF i = 0 THEN [k \in {"pitch"} |-> 0] ELSE NoParams)]
      [] OTHER ->
           [active |-> TRUE, velocity |-> 127, probability |-> 5,
            microTiming |-> 0,
            parameters |-> (IF i = 2 THEN [k \in {"pitch"} |-> 0] ELSE NoParams)]

\* A track of the given kind with n steps.
TrackOf(kind, n) ==
    [synthType |-> (CASE kind = "kick" -> "kick" [] kind = "hat" -> "hihat"
                      [] kind = "snare" -> "snare" [] kind = "clap" -> "clap"
                      [] kind = "rim" -> "rim" [] kind = "cowbell" -> "cowbell"
                      [] OTHER -> "tom"),
     volume |-> (CASE kind = "kick" -> 9 [] kind = "hat" -> 6
                   [] kind = "snare" -> 8 [] kind = "clap" -> 7
                   [] kind = "rim" -> 7 [] kind = "cowbell" -> 9 [] OTHER -> 10),
     mute |-> (kind \in {"snare", "clap"}),
     solo |-> (kind \in {"hat", "clap"}),
     steps |-> [i \in 1..n |-> StepOf(kind, i - 1)],
     synthParams |-> [k \in {"pitch", "decay", "tone"} |->
                        CASE k = "pitch" -> 60 [] k = "decay" -> 100 [] OTHER -> 5]]

\* The track layouts: the kind of the first track and the kind of all others.
PlainLayout == <<"kick", "kick">>

FastTempo == <<300, 0>>

PatternOf(tempo, layout) ==
    [bpm |-> tempo[1], swing |-> tempo[2], steps |-> NumSteps,
     tracks |-> [t \in 1..NumTracks |->
                   TrackOf(IF t = 1 THEN layout[1] ELSE layout[2], NumSteps)]]

\* A pattern whose tracks have n steps each.
PatternOfLength(tempo, layout, n) ==
    [bpm |-> tempo[1], swing |-> tempo[2], steps |-> n,
     tracks |-> [t \in 1..NumTracks |->
                   TrackOf(IF t = 1 THEN layout[1] ELSE layout[2], n)]]

\* The same pattern in its long and its short form: the shorter of the two
\* step counts a pattern can have (16 against 32) is half the longer.
ResizePatterns ==
    { PatternOfLength(FastTempo, PlainLayout, NumSteps),
      PatternOfLength(FastTempo, PlainLayout, NumSteps \div 2) }

\* The patterns handed to start() and updatePattern(): every tempo on the
\* plain layout (tempo and swing, swing in tenths), every other layout (the
\* kind of the first track and the kind of all others) at the fast tempo.
Patterns ==
    { PatternOf(tempo, PlainLayout) :
        tempo \in { <<120, 0>>, <<300, 0>>, <<300, 6>>, <<60, 10>> } }
      \cup { PatternOf(FastTempo, layout) :
               layout \in { <<"kick", "snare">>, <<"kick", "hat">>, <<"clap", "kick">>,
                            <<"kick", "tom">>, <<"tom", "kick">>, <<"kick", "rim">>,
                            <<"cowbell", "kick">> } }

\* ----------------------------------------------------------- AudioEngine
\* The keys of AudioEngine.synths after initializeSynths().
RegisteredSynths == {"kick", "snare", "hihat", "clap", "rim", "tom", "perc1", "perc2"}

\* Does synth.trigger(time, velocity, params) raise an error?  The engines
\* named ramp an oscillator frequency exponentially to a multiple of pitch,
\* and exponentialRampToValueAtTime raises a RangeError for 0.  (An absent
\* pitch falls back to the engine's own parameter, which is not 0.)
TriggerThrows(synthType, params) ==
    /\ synthType \in {"kick", "rim", "tom", "perc1", "perc2"}
    /\ "pitch" \in DOMAIN params
    /\ params["pitch"] = 0

\* The velocity triggerDrum hands to synth.trigger: velocity / 127, as the
\* fraction num / den (velocity arrives in tenths).
EngineVelocity_Raw(velocity) == [num |-> velocity, den |-> 10]

EngineVelocity(velocity) == [num |-> velocity, den |-> 127 * 10]

\* The time triggerDrum hands to synth.trigger: it reads context.currentTime
\* (tnow); the due time of the step is not among its arguments.
TriggerTime(time, tnow) == tnow

\* triggerDrum raising an error for a synth type it does not know.
TriggerDrum_UnknownThrows(t, synthType, velocity, params, time, inited, tnow) ==
    IF ~inited THEN <<>>
    ELSE << [track |-> t, synthType |-> synthType, time |-> tnow,
             velocity |-> velocity, engineVelocity |-> EngineVelocity(velocity),
             params |-> params,
             threw |-> (synthType \notin RegisteredSynths)] >>

\* AudioEngine.triggerDrum(synthType, velocity, params) called by track t with
\* the clock at tnow: the synth.trigger calls it makes (none or one).
TriggerDrum(t, synthType, velocity, params, time, inited, tnow) ==
    IF ~inited THEN <<>>
    ELSE IF synthType \notin RegisteredSynths THEN <<>>
    ELSE << [track |-> t, synthType |-> synthType, time |-> TriggerTime(time, tnow),
             velocity |-> velocity, engineVelocity |-> EngineVelocity(velocity),
             params |-> params,
             threw |-> TriggerThrows(synthType, params)] >>

\* ------------------------------------------------------------ the engines
\* The pitch each engine's constructor stores, in Hz.
DefaultPitch(synthType) ==
    CASE synthType = "kick" -> 60 [] synthType = "snare" -> 200
      [] synthType = "hihat" -> 8000 [] synthType = "clap" -> 1000
      [] synthType = "rim" -> 400 [] synthType = "tom" -> 150
      [] OTHER -> 300

\* A gain envelope: every engine calls createEnvelope with endValue 0.001, and
\* the target of its exponential ramp is Math.max(endValue, 0.001), in
\* thousandths.
Envelope(param) ==
    [param |-> param, target |-> IF 1 > EnvelopeFloor THEN 1 ELSE EnvelopeFloor]

\* An oscillator frequency sweep to pitch * factor (factor in thousandths).
Sweep(param, pitch, factor) == [param |-> param, target |-> pitch * factor]

\* The exponential ramps trigger() asks for, in the order of its statements,
\* targets in thousandths.
RampRequests(synthType, pitch) ==
    CASE synthType = "kick" ->
           << Sweep("subOsc.frequency", pitch, 1000), Envelope("subGain.gain"),
              Sweep("clickOsc.frequency", pitch, 2000), Envelope("clickGain.gain") >>
      [] synthType = "snare" ->
           << Envelope("bodyGain.gain"), Envelope("noiseGain.gain") >>
      [] synthType = "hihat" ->
           << Envelope("envGain.gain") >>
      [] synthType = "clap" ->
           << Envelope("gain.gain") >>
      [] synthType = "rim" ->
           << Envelope("oscGain.gain"), Sweep("clickOsc.frequency", pitch, 2000),
              Envelope("clickGain.gain") >>
      [] synthType = "tom" ->
           << Sweep("bodyOsc.frequency", pitch, 1000), Envelope("bodyGain.gain"),
              Envelope("attackGain.gain") >>
      [] OTHER ->
           << Sweep("osc1.frequency", pitch, 800), Envelope("envGain.gain"),
              Envelope("noiseGain.gain") >>

\* exponentialRampToValueAtTime raises a RangeError for the target 0, which
\* ends trigger(): the requests made, up to and including the one that failed.
RECURSIVE RampsUntilError(_, _)
RampsUntilError(requests, acc) ==
    IF requests = <<>> THEN acc
    ELSE IF Head(requests).target = 0 THEN Append(acc, Head(requests))
    ELSE RampsUntilError(Tail(requests), Append(acc, Head(requests)))

\* SnareSynth.trigger: the nodes array after the pushes of the body, the
\* noise component and the master gain.
SnareNodes ==
    << "bodyOsc", "bodyFilter", "bodyGain", "noiseSource", "noiseFilter", "noiseGain",
       "masterGain" >>

\* lastNoiseGain = nodes[nodes.length - 4] (0-based).
SnareNoiseTap(nodes) == nodes[(Len(nodes) - 4) + 1]

\* The connect() calls of SnareSynth.trigger.
SnareConnections(nodes) ==
    { <<"bodyOsc", "bodyFilter">>, <<"bodyFilter", "bodyGain">>,
      <<"noiseSource", "noiseFilter">>, <<"noiseFilter", "noiseGain">>,
      <<"bodyGain", "masterGain">>, <<SnareNoiseTap(nodes), "masterGain">>,
      <<"masterGain", "outputNode">> }

\* What synth.trigger(time, velocity, params) of an engine asks of the audio
\* graph: its ramps, whether it raised an error and, for the snare, the
\* connections of the voice.  pitch = params?.pitch ?? this.getParameter(
\* 'pitch', ...): an override of 0 is not nullish and is used.
EngineVoice(synthType, velocity, params) ==
    LET pitch == IF "pitch" \in DOMAIN params THEN params["pitch"]
                 ELSE DefaultPitch(synthType)
        ramps == RampsUntilError(RampRequests(synthType, pitch), <<>>)
    IN  [synthType |-> synthType, velocity |-> velocity, params |-> params,
         ramps |-> ramps,
         threw |-> (\E i \in DOMAIN ramps : ramps[i].target = 0),
         connections |-> (IF synthType = "snare" THEN SnareConnections(SnareNodes)
                          ELSE {})]

\* params?.key ?? this.getParameter(key, ...) on an engine whose stored
\* parameters are those of its constructor: the decay times each constructor
\* stores and the clap's spread, in the unit of the clock; the clap's layers
\* in tenths.
ParamOf(synthType, params, key) ==
    IF key \in DOMAIN params THEN params[key]
    ELSE CASE key = "decay" ->
                (CASE synthType = "kick" -> 1000 [] synthType = "clap" -> 200
                   [] synthType = "rim" -> 160 [] synthType = "tom" -> 800
                   [] synthType = "snare" -> 300 [] synthType = "hihat" -> DefaultDecay
                   [] OTHER -> 240)
           [] key = "bodyDecay" -> 240
           [] key = "noiseDecay" -> 160
           [] key = "spread" -> 40
           [] OTHER -> 30       \* layers

\* The 0.1 s that kick, tom, snare and clap add to the decay for endTime.
endTimeLongTail == 200

\* The clap's endTime without the term spread * layerCount.
VoiceEndTime_NoSpread(synthType, time, params) ==
    CASE synthType \in {"kick", "tom", "clap"} ->
           time + ParamOf(synthType, params, "decay") + endTimeLongTail
      [] synthType = "snare" ->
           \* Math.max(bodyDecay, noiseDecay)
           time + (IF ParamOf(synthType, params, "bodyDecay")
                        >= ParamOf(synthType, params, "noiseDecay")
                   THEN ParamOf(synthType, params, "bodyDecay")
                   ELSE ParamOf(synthType, params, "noiseDecay")) + endTimeLongTail
      [] OTHER ->
           time + ParamOf(synthType, params, "decay") + endTimeTail

\* endTime as each trigger() computes it.
VoiceEndTime(synthType, time, params) ==
    CASE synthType \in {"kick", "tom"} ->
           time + ParamOf(synthType, params, "decay") + endTimeLongTail
      [] synthType = "snare" ->
           \* Math.max(bodyDecay, noiseDecay)
           time + (IF ParamOf(synthType, params, "bodyDecay")
                        >= ParamOf(synthType, params, "noiseDecay")
                   THEN ParamOf(synthType, params, "bodyDecay")
                   ELSE ParamOf(synthType, params, "noiseDecay")) + endTimeLongTail
      [] synthType = "clap" ->
           time + ParamOf(synthType, params, "decay")
                \* layerCount = Math.floor(layers), layers in tenths
                + ParamOf(synthType, params, "spread")
                    * (ParamOf(synthType, params, "layers") \div 10)
                + endTimeLongTail
      [] OTHER ->
           time + ParamOf(synthType, params, "decay") + endTimeTail

\* The stop() calls trigger() makes on its oscillators and noise sources:
\* the node and the time it is told to stop.
GeneratorStops(synthType, time, params) ==
    LET endTime == VoiceEndTime(synthType, time, params)
        decay == ParamOf(synthType, params, "decay")
    IN  CASE synthType = "kick" ->
               { [node |-> <<"subOsc">>, at |-> endTime],
                 [node |-> <<"clickOsc">>, at |-> endTime] }
          [] synthType = "tom" ->
               { [node |-> <<"bodyOsc">>, at |-> endTime],
                 [node |-> <<"attackOsc">>, at |-> endTime] }
          [] synthType = "rim" ->
               { [node |-> <<"osc">>, at |-> endTime],
                 [node |-> <<"clickOsc">>, at |-> endTime] }
          [] synthType = "snare" ->
               { [node |-> <<"noiseSource">>,
                  at |-> time + ParamOf(synthType, params, "noiseDecay")
                              + endTimeLongTail],
                 [node |-> <<"bodyOsc">>, at |-> endTime] }
          [] synthType = "clap" ->
               \* layerCount = Math.floor(layers), layers in tenths;
               \* layerDecay = decay * (0.8 + i * 0.1)
               { [node |-> <<"noiseSource", i>>,
                  at |-> (time + i * ParamOf(synthType, params, "spread"))
                           + ((decay * (8 + i)) \div 10) + endTimeTail] :
                   i \in 0..((ParamOf(synthType, params, "layers") \div 10) - 1) }
          [] synthType = "hihat" ->
               { [node |-> <<"noiseSource">>, at |-> endTime] }
          [] OTHER ->
               { [node |-> <<"osc1">>, at |-> endTime],
                 [node |-> <<"osc2">>, at |-> endTime],
                 [node |-> <<"noiseSource">>, at |-> time + decay \div 2 + endTimeTail] }

\* The keys of AudioEngine.synths whose engines keep no choke map; 'perc1'
\* and 'perc2' are two PercSynth objects.
EngineKeys == RegisteredSynths \ {"hihat"}

\* The most voices the engines register in one run.
MaxEngVoices == 3

\* The most AudioContexts open at one time.
MaxContexts == 2

\* -------------------------------------------------------- usePatternStore
\* The store holds bpm and velocity as integers, swing and track volume in
\* tenths, step probability in hundredths, the synth parameters pitch and
\* color in Hz, decay in milliseconds, tone in tenths.  NaN and JsonNull
\* stand for the number NaN and for the JSON value null.
NaN == -1000000

JsonNull == -1000001

\* Math.max(lo, Math.min(hi, x)): NaN goes through both.
Clamp(lo, hi, x) ==
    IF x = NaN THEN NaN ELSE IF x < lo THEN lo ELSE IF x > hi THEN hi ELSE x

\* crypto.randomUUID() and Date.now(): the values they return after the
\* store was created (with id 1, at time 1).
Ids == {2}

Stamps == {2}

\* The step createDefaultPattern gives every track.
DefaultStep ==
    [active |-> FALSE, velocity |-> 100, probability |-> 100, microTiming |-> 0,
     parameters |-> NoParams]

\* The i-th entry (1-based) of defaultTracks, with n steps.
DefaultTrack(i, n) ==
    [id |-> i - 1,
     name |-> (CASE i = 1 -> "Kick" [] i = 2 -> "Snare" [] i = 3 -> "Closed HH"
                 [] i = 4 -> "Open HH" [] i = 5 -> "Clap" [] i = 6 -> "Rim"
                 [] i = 7 -> "Tom" [] OTHER -> "Perc"),
     synthType |-> (CASE i = 1 -> "kick" [] i = 2 -> "snare" [] i = 3 -> "hihat"
                      [] i = 4 -> "hihat" [] i = 5 -> "clap" [] i = 6 -> "rim"
                      [] i = 7 -> "tom" [] OTHER -> "perc1"),
     volume |-> (CASE i = 1 -> 10 [] i = 2 -> 8 [] i = 3 -> 6 [] i = 4 -> 5
                   [] i = 5 -> 7 [] i = 6 -> 7 [] i = 7 -> 8 [] OTHER -> 6),
     mute |-> FALSE,
     solo |-> FALSE,
     steps |-> [j \in 1..n |-> DefaultStep],
     synthParams |-> [k \in {"pitch", "decay", "tone"} |->
                        CASE k = "pitch" -> (CASE i = 1 -> 60 [] i = 2 -> 200
                                               [] i = 3 -> 8000 [] i = 4 -> 8000
                                               [] i = 5 -> 1000 [] i = 6 -> 400
                                               [] i = 7 -> 150 [] OTHER -> 300)
                          [] k = "decay" -> (CASE i = 1 -> 500 [] i = 2 -> 150
                                               [] i = 3 -> 50 [] i = 4 -> 150
                                               [] i = 5 -> 100 [] i = 6 -> 80
                                               [] i = 7 -> 400 [] OTHER -> 120)
                          [] OTHER -> (CASE i = 3 -> 7 [] i = 4 -> 6 [] i = 5 -> 6
                                         [] i = 6 -> 7 [] OTHER -> 5)]]

\* createDefaultPattern(): NumTracks tracks of NumSteps steps each.
CreateDefaultPattern(id, created) ==
    [id |-> id, name |-> <<"New Pattern">>, bpm |-> 120, swing |-> 0,
     tracks |-> [i \in 1..NumTracks |-> DefaultTrack(i, NumSteps)],
     steps |-> NumSteps, created |-> created, version |-> 1]

\* Does the pattern have a step at (0-based) trackIndex, stepIndex?  If not,
\* the recipe of an action on that step raises a TypeError and the store keeps
\* its state.
HasStep(p, trackIndex, stepIndex) ==
    /\ trackIndex + 1 \in DOMAIN p.tracks
    /\ stepIndex + 1 \in DOMAIN p.tracks[trackIndex + 1].steps

HasTrack(p, trackIndex) == trackIndex + 1 \in DOMAIN p.tracks

\* JSON.stringify writes null for NaN; JSON.parse reads the null back.
JsonNumber(x) == IF x = NaN THEN JsonNull ELSE x

JsonStep(st) ==
    [active |-> st.active, velocity |-> JsonNumber(st.velocity),
     probability |-> JsonNumber(st.probability),
     microTiming |-> JsonNumber(st.microTiming), parameters |-> st.parameters]

JsonTrack(tr) ==
    [id |-> tr.id, name |-> tr.name, synthType |-> tr.synthType,
     volume |-> JsonNumber(tr.volume), mute |-> tr.mute, solo |-> tr.solo,
     steps |-> [j \in DOMAIN tr.steps |-> JsonStep(tr.steps[j])],
     synthParams |-> tr.synthParams]

\* JSON.parse(JSON.stringify(pattern, null, 2)): the document exportPatternAsJSON
\* writes, as importPatternFromJSON reads it.
JsonPattern(p) ==
    [id |-> p.id, name |-> p.name, bpm |-> JsonNumber(p.bpm),
     swing |-> JsonNumber(p.swing),
     tracks |-> [i \in DOMAIN p.tracks |-> JsonTrack(p.tracks[i])],
     steps |-> JsonNumber(p.steps), created |-> p.created, version |-> p.version]

\* The structure check of importPatternFromJSON: id, name and tracks are
\* truthy.  Every document here has a tracks array, and any array is truthy.
ImportAccepts(doc) == doc.id # JsonNull /\ doc.name # <<>>

\* importPatternFromJSON on an accepted document: new id, new creation time,
\* the name marked as imported.
ImportPatternFromJSON(doc, id, created) ==
    [doc EXCEPT !.id = id, !.created = created, !.name = Append(@, "(imported)")]

\* The characters btoa() accepts are those of Latin-1.
NonLatin1Names == { <<"Ritmus (U+266A)">> }

\* encodePatternToURL: the simplified object, serialized; it fails when the
\* name holds a character outside Latin-1.
EncodeFails(p) == p.name \in NonLatin1Names

EncodePatternToURL(p) ==
    [n |-> p.name, b |-> JsonNumber(p.bpm), s |-> JsonNumber(p.swing),
     st |-> JsonNumber(p.steps),
     t |-> [i \in DOMAIN p.tracks |->
              [n |-> p.tracks[i].name, t |-> p.tracks[i].synthType,
               v |-> JsonNumber(p.tracks[i].volume), m |-> p.tracks[i].mute,
               so |-> p.tracks[i].solo, p |-> p.tracks[i].synthParams,
               s |-> [j \in DOMAIN p.tracks[i].steps |->
                        [a |-> p.tracks[i].steps[j].active,
                         v |-> JsonNumber(p.tracks[i].steps[j].velocity),
                         pr |-> JsonNumber(p.tracks[i].steps[j].probability),
                         mt |-> JsonNumber(p.tracks[i].steps[j].microTiming),
                         pm |-> p.tracks[i].steps[j].parameters]]]]]

\* decodePatternFromURL followed by the completion of App.initApp: the track
\* ids are the indices, id and creation time are new, version is 1.
DecodePatternFromURL(simplified, id, created) ==
    [id |-> id, name |-> simplified.n, bpm |-> simplified.b, swing |-> simplified.s,
     tracks |-> [i \in DOMAIN simplified.t |->
                   [id |-> i - 1, name |-> simplified.t[i].n,
                    synthType |-> simplified.t[i].t, volume |-> simplified.t[i].v,
                    mute |-> simplified.t[i].m, solo |-> simplified.t[i].so,
                    steps |-> [j \in DOMAIN simplified.t[i].s |->
                                 [active |-> simplified.t[i].s[j].a,
                                  velocity |-> simplified.t[i].s[j].v,
                                  probability |-> simplified.t[i].s[j].pr,
                                  microTiming |-> simplified.t[i].s[j].mt,
                                  parameters |-> simplified.t[i].s[j].pm]],
                    synthParams |-> simplified.t[i].p]],
     steps |-> simplified.st, created |-> created, version |-> 1]

\* randomizePattern on one step of the track at trackIndex, for the three
\* Math.random() draws (tenths) it makes.
RandomDensity(trackIndex) ==
    CASE trackIndex = 0 -> 3 [] trackIndex = 1 -> 2 [] trackIndex = 2 -> 5 [] OTHER -> 2

RandomizeStep(st, trackIndex, draws) ==
    IF draws[1] < RandomDensity(trackIndex)
    THEN [st EXCEPT !.active = TRUE,
                    !.velocity = 80 + ((draws[2] * 47) \div 10),
                    !.probability = 70 + draws[3] * 3]
    ELSE [st EXCEPT !.active = FALSE]

\* ------------------------------------------------------------- Sequencer
\* secondsPerStep = (60 / bpm) / 4, in half milliseconds.
SecondsPerStep(p) == 30000 \div p.bpm

\* The swing offset nextStep() adds while the cursor is at cs.
SwingOffset(p, cs) ==
    IF cs % 2 = 1 /\ p.swing > 0
    THEN (SecondsPerStep(p) * p.swing) \div 20
    ELSE 0

\* nextStep() advancing by a beat instead of a sixteenth.
AdvanceTime_PerBeat(p, cs, nst) == nst + 4 * SecondsPerStep(p) + SwingOffset(p, cs)

\* nextStep(): the new accumulator and the new cursor.
AdvanceTime(p, cs, nst) == nst + SecondsPerStep(p) + SwingOffset(p, cs)

AdvanceStep(p, cs) == (cs + 1) % p.steps

\* The loop condition of schedule().
StepIsDue(nst, tnow) == nst < tnow + scheduleAheadTime

\* uiDelay = max(0, (time - currentTime) * 1000 - 10) ms.
UiDelay(time, tnow) ==
    IF (time - tnow) - 20 > 0 THEN (time - tnow) - 20 ELSE 0

\* The timeouts one run of schedule() sets, in the order set: setTimeout(() =>
\* this.onStepCallback?.(step), uiDelay) for every step of the log that found
\* a callback registered.  at is the clock value from which the timeout can run.
QueuedBy(log, tnow) ==
    LET told == SelectSeq(log, LAMBDA r : r.notify >= 0) IN
    [i \in DOMAIN told |->
        [step |-> told[i].step, at |-> tnow + told[i].notify, stale |-> FALSE]]

\* The timeouts that were pending when a later start() ran: they belong to a
\* run that is over.
Outlived(q) == [i \in DOMAIN q |-> [q[i] EXCEPT !.stale = TRUE]]

\* The timeout the event loop runs next: the earliest to expire, and of those
\* the one set first.
NextTimeout(q) ==
    CHOOSE i \in DOMAIN q :
        \A j \in DOMAIN q : q[i].at < q[j].at \/ (q[i].at = q[j].at /\ i <= j)

\* Is a timeout of q ready to run at clock value tnow?
TimeoutReady(q, tnow) == \E i \in DOMAIN q : q[i].at <= tnow

RemoveAt(q, i) == [j \in 1..(Len(q) - 1) |-> IF j < i THEN q[j] ELSE q[j + 1]]

\* What App shows after its play/stop effect has called sequencer.stop():
\* setLocalCurrentStep(0).
StoppedDisplay == 0

HasSolo(p) == \E t \in DOMAIN p.tracks : p.tracks[t].solo

\* The skip of the probability check: Math.random() > stepData.probability.
ProbabilitySkips(draw, probability) == draw > probability

\* The early returns without the solo check.
TrackSkipped_NoSolo(track, stepData, hasSolo, draw) ==
    \/ ~stepData.active
    \/ track.mute
    \/ ProbabilitySkips(draw, stepData.probability)

\* The early returns of the forEach callback of scheduleStep.
TrackSkipped(track, stepData, hasSolo, draw) ==
    \/ ~stepData.active
    \/ track.mute
    \/ (hasSolo /\ ~track.solo)
    \/ ProbabilitySkips(draw, stepData.probability)

\* velocity = stepData.velocity * track.volume (volume in tenths); the engine
\* receives this value divided by 127.
Velocity(track, stepData) == stepData.velocity * track.volume

\* The merge with the track's values winning over the step's overrides.
MergeParams_TrackWins(trackParams, stepParams) ==
    [k \in (DOMAIN trackParams) \cup (DOMAIN stepParams) |->
        IF k \in DOMAIN trackParams THEN trackParams[k] ELSE stepParams[k]]

\* triggerParams = {...track.synthParams, ...stepData.parameters}.
MergeParams(trackParams, stepParams) ==
    [k \in (DOMAIN trackParams) \cup (DOMAIN stepParams) |->
        IF k \in DOMAIN stepParams THEN stepParams[k] ELSE trackParams[k]]

\* The forEach over the tracks of scheduleStep, from track t on: the trigger
\* calls made so far (acc) and whether an error ended the loop.  An error
\* raised in one callback ends forEach, scheduleStep and schedule.
RECURSIVE TrackLoop(_, _, _, _, _, _, _, _)
TrackLoop(p, step, time, rnd, inited, tnow, t, acc) ==
    IF t > Len(p.tracks) THEN [calls |-> acc, threw |-> FALSE]
    ELSE LET track == p.tracks[t] IN
         IF step + 1 > Len(track.steps)
         THEN [calls |-> acc, threw |-> TRUE]   \* stepData is undefined
         ELSE LET stepData == track.steps[step + 1] IN
              IF TrackSkipped(track, stepData, HasSolo(p), rnd[t])
              THEN TrackLoop(p, step, time, rnd, inited, tnow, t + 1, acc)
              ELSE LET c == TriggerDrum(t, track.synthType, Velocity(track, stepData),
                                        MergeParams(track.synthParams, stepData.parameters),
                                        time, inited, tnow)
                   IN  IF c # <<>> /\ c[1].threw
                       THEN [calls |-> acc \o c, threw |-> TRUE]
                       ELSE TrackLoop(p, step, time, rnd, inited, tnow, t + 1, acc \o c)

\* scheduleStep reading, for odd steps, a pattern other than the one the pass
\* began with.
ScheduleStep_Rereads(p, cb, step, time, k, rnd, inited, tnow) ==
    LET q == IF step % 2 = 1 THEN PatternOf(FastTempo, <<"tom", "kick">>) ELSE p
        r == TrackLoop(q, step, time, rnd, inited, tnow, 1, <<>>)
    IN  [k |-> k, step |-> step, time |-> time,
         notify |-> (IF cb # 0 THEN UiDelay(time, tnow) ELSE -1),
         calls |-> r.calls, threw |-> r.threw]

\* scheduleStep(step, time): the notification it queues (its delay, -1 when no
\* callback is registered), the trigger calls it makes and whether it threw.
\* k is the number of nextStep() calls since start().
ScheduleStep(p, cb, step, time, k, rnd, inited, tnow) ==
    LET r == TrackLoop(p, step, time, rnd, inited, tnow, 1, <<>>) IN
    [k |-> k, step |-> step, time |-> time,
     notify |-> (IF cb # 0 THEN UiDelay(time, tnow) ELSE -1),
     calls |-> r.calls, threw |-> r.threw]

\* The while loop of schedule(): tnow is read once, before the loop.
RECURSIVE ScheduleLoop(_, _, _, _, _, _, _, _, _)
ScheduleLoop(p, cb, cs, nst, k, rnd, inited, tnow, acc) ==
    IF ~StepIsDue(nst, tnow)
    THEN [currentStep |-> cs, nextStepTime |-> nst, k |-> k, log |-> acc]
    ELSE LET r == ScheduleStep(p, cb, cs, nst, k, rnd, inited, tnow) IN
         IF r.threw
         THEN [currentStep |-> cs, nextStepTime |-> nst, k |-> k,
               log |-> Append(acc, r)]
         ELSE ScheduleLoop(p, cb, AdvanceStep(p, cs), AdvanceTime(p, cs, nst),
                           k + 1, rnd, inited, tnow, Append(acc, r))

\* Did the run of schedule() that produced this log end by an error?
PassThrew(log) == log # <<>> /\ log[Len(log)].threw

\* The index of the last step dispatched, given the one before the log.
LastStepOf(log, before) == IF log = <<>> THEN before ELSE log[Len(log)].step

\* start() not asking the audio engine whether it is initialized.
StartRefused_IgnoresEngine(playing, inited) == playing

\* The early returns of start(): already playing, or the audio engine is not
\* initialized (logged).
StartRefused(playing, inited) == playing \/ ~inited

\* start() keeping the accumulator of the previous run.
StartClock_Stale(tnow) == nextStepTime

\* The clock value start() stores in nextStepTime.
StartClock(tnow) == tnow

\* ------------------------------------------------------------ HiHatSynth
\* The choke groups and the decays (50 ms closed, 150 ms open) of the trigger
\* calls, and the parameter overrides a call can carry.
ChokeGroups == {0, 1}

Decays == {100, 300}

HhParamSets ==
    { [k \in {"decay"} |-> d] : d \in Decays }
      \cup { [k \in {"decay", "chokeGroup"} |->
                 IF k = "decay" THEN d ELSE g] : d \in Decays, g \in ChokeGroups }

\* BaseDrumSynth.getParameter(name, defaultValue).
GetParameter(parameters, name, defaultValue) ==
    IF name \in DOMAIN parameters THEN parameters[name] ELSE defaultValue

\* chokeGroup = params?.chokeGroup ?? this.getParameter('chokeGroup', 0).
ChokeGroupOf(params, stored) ==
    IF "chokeGroup" \in DOMAIN params THEN params["chokeGroup"] ELSE stored

\* decay = params?.decay ?? this.getParameter('decay', 0.05).
DecayOf(params, stored) ==
    IF "decay" \in DOMAIN params THEN params["decay"] ELSE stored

\* The filter cutoff HiHatSynth.initializeDefaultParameters stores, in Hz.
DefaultColor == 8000

\* The values HiHatSynth.trigger reads for a call with the overrides params
\* while the engine stores parameters.
HhReads(params, parameters) ==
    [decay |-> DecayOf(params, GetParameter(parameters, "decay", DefaultDecay)),
     \* color = params?.color ?? this.getParameter('color', 8000)
     color |-> (IF "color" \in DOMAIN params THEN params["color"]
                ELSE GetParameter(parameters, "color", DefaultColor)),
     chokeGroup |-> ChokeGroupOf(params, GetParameter(parameters, "chokeGroup",
                                                      DefaultChokeGroup))]

\* The bookkeeping of the synth as one record.
HhState ==
    [voices |-> hhVoices, choke |-> hhChoke, stopped |-> hhStopped,
     disconnected |-> hhDisconnected]

\* A map without the entry of key g.
MapDelete(m, g) == [h \in (DOMAIN m) \ {g} |-> m[h]]

\* A map with key g set to v.
MapSet(m, g, v) == [h \in (DOMAIN m) \cup {g} |-> IF h = g THEN v ELSE m[h]]

\* voice.stop() removing the choke entry of its group whoever holds it.
VoiceStop_ClearsGroup(st, v, g, stopTime) ==
    [voices |-> st.voices \ {v},
     choke |-> MapDelete(st.choke, g),
     stopped |-> [st.stopped EXCEPT ![v] = Append(@, stopTime)],
     disconnected |-> st.disconnected \cup {v}]

\* voice.stop() leaving the voice in the active set.
VoiceStop_KeepsVoice(st, v, g, stopTime) ==
    [voices |-> st.voices,
     choke |-> (IF g \in DOMAIN st.choke /\ st.choke[g] = v
                THEN MapDelete(st.choke, g) ELSE st.choke),
     stopped |-> [st.stopped EXCEPT ![v] = Append(@, stopTime)],
     disconnected |-> st.disconnected \cup {v}]

\* voice.stop(stopTime) of voice v whose closure captured choke group g: the
\* noise source is stopped at stopTime, every node is disconnected, the voice
\* leaves the active set, and its choke entry is removed if it is still its own.
VoiceStop(st, v, g, stopTime) ==
    [voices |-> st.voices \ {v},
     choke |-> (IF g \in DOMAIN st.choke /\ st.choke[g] = v
                THEN MapDelete(st.choke, g) ELSE st.choke),
     stopped |-> [st.stopped EXCEPT ![v] = Append(@, stopTime)],
     disconnected |-> st.disconnected \cup {v}]

\* voice.stop(stopTime) on every voice of S, lowest id first.
RECURSIVE StopAll(_, _, _, _)
StopAll(st, S, groupOf, stopTime) ==
    IF S = {} THEN st
    ELSE LET v == CHOOSE x \in S : \A y \in S : x <= y IN
         StopAll(VoiceStop(st, v, groupOf[v], stopTime), S \ {v}, groupOf, stopTime)

\* Choke handling stopping the voice of every group.
ChokeTargets_AllGroups(choke, g) == { choke[h] : h \in DOMAIN choke }

\* The voices the choke handling of trigger() stops: the one registered under
\* the group of the call, if any.
ChokeTargets(choke, g) == IF g \in DOMAIN choke THEN {choke[g]} ELSE {}

\* Choke handling that forgets the voice of the group without stopping it.
Choke_ForgetsVoice(st, groupOf, g, time) ==
    IF g \in DOMAIN st.choke
    THEN [st EXCEPT !.choke = MapDelete(st.choke, g)]
    ELSE st

\* The choke handling of trigger(time, ...) for group g.
Choke(st, groupOf, g, time) ==
    LET s1 == StopAll(st, ChokeTargets(st.choke, g), groupOf, time) IN
    IF g \in DOMAIN st.choke
    THEN [s1 EXCEPT !.choke = MapDelete(s1.choke, g)]
    ELSE st

\* endTime = time + decay + 0.05.
EndTime(time, decay) == time + decay + endTimeTail

\* The auto-cleanup timeout is set (endTime - currentTime) * 1000 + 100 ms
\* after the call: the clock value from which it can fire.
CleanupAt(time, decay, tnow) ==
    LET delay == (EndTime(time, decay) - tnow) + cleanupGrace IN
    tnow + (IF delay > 0 THEN delay ELSE 0)

\* The bookkeeping of the synth with the closures and the timeouts of its
\* voices, as one record.
HhFull ==
    [voices |-> hhVoices, choke |-> hhChoke, stopped |-> hhStopped,
     disconnected |-> hhDisconnected, groupOf |-> hhGroupOf, endTime |-> hhEndTime,
     timers |-> hhTimers, last |-> hhLast]

\* HiHatSynth.trigger(time, velocity, params) with the clock at tnow, on the
\* bookkeeping bk and the stored parameters: choke handling, then the new
\* voice is built, registered and given its auto-cleanup timeout.
HhTriggered(bk, parameters, time, params, tnow) ==
    LET g == ChokeGroupOf(params, GetParameter(parameters, "chokeGroup",
                                               DefaultChokeGroup))
        decay == DecayOf(params, GetParameter(parameters, "decay", DefaultDecay))
        v == Cardinality(DOMAIN bk.groupOf) + 1
        s1 == Choke([voices |-> bk.voices, choke |-> bk.choke,
                     stopped |-> MapSet(bk.stopped, v, <<>>),
                     disconnected |-> bk.disconnected],
                    bk.groupOf, g, time)
    IN  [voices |-> s1.voices \cup {v},
         choke |-> MapSet(s1.choke, g, v),
         stopped |-> s1.stopped,
         disconnected |-> s1.disconnected,
         groupOf |-> MapSet(bk.groupOf, v, g),
         endTime |-> MapSet(bk.endTime, v, EndTime(time, decay)),
         timers |-> bk.timers \cup {[voice |-> v, at |-> CleanupAt(time, decay, tnow)]},
         last |-> [voice |-> v, time |-> time, group |-> g,
                   overrides |-> DOMAIN params,
                   before |-> bk.voices,
                   stops |-> { <<u, s1.stopped[u][Len(s1.stopped[u])]>> :
                                 u \in { x \in DOMAIN bk.stopped :
                                           Len(s1.stopped[x]) > Len(bk.stopped[x]) } },
                   disconnects |-> s1.disconnected \ bk.disconnected,
                   atRegister |-> s1.voices,
                   after |-> s1.voices \cup {v}]]

\* The synth.trigger calls of a run of schedule() that reach the engine
\* registered under synthType, in the order made.
RECURSIVE CallsOf(_, _)
CallsOf(log, synthType) ==
    IF log = <<>> THEN <<>>
    ELSE SelectSeq(Head(log).calls, LAMBDA c : c.synthType = synthType)
           \o CallsOf(Tail(log), synthType)

\* The hi-hat synth after the calls of one run of schedule(), all made with
\* the clock at tnow.
RECURSIVE HhPassed(_, _, _, _)
HhPassed(bk, parameters, calls, tnow) ==
    IF calls = <<>> THEN bk
    ELSE HhPassed(HhTriggered(bk, parameters, Head(calls).time, Head(calls).params, tnow),
                  parameters, Tail(calls), tnow)

TypeOK ==
    /\ isPlaying \in BOOLEAN
    /\ currentStep \in Nat
    /\ nextStepTime \in Nat
    /\ timerID \in {0, 1}
    /\ pattern \in Patterns \cup ResizePatterns \cup {NoPattern}
    /\ onStepCallback \in {0, 1}
    /\ liveTimers \in Nat
    /\ initialized \in BOOLEAN
    /\ now \in 0..HhMaxTime
    /\ hhVoices \subseteq DOMAIN hhGroupOf
    /\ DOMAIN hhGroupOf = 1..Cardinality(DOMAIN hhGroupOf)
    /\ DOMAIN hhStopped = DOMAIN hhGroupOf
    /\ hhDisconnected \subseteq DOMAIN hhGroupOf
    /\ DOMAIN hhEndTime = DOMAIN hhGroupOf
    /\ hhConnected \in BOOLEAN
    /\ {"chokeGroup", "decay"} \subseteq DOMAIN hhParameters
    /\ hhParameters["chokeGroup"] \in ChokeGroups
    /\ \A g \in DOMAIN hhChoke : g \in ChokeGroups /\ hhChoke[g] \in DOMAIN hhGroupOf
    /\ \A tm \in hhTimers : tm.voice \in DOMAIN hhGroupOf /\ tm.at \in Nat
    /\ Len(uiQueue) <= MaxQueued
    /\ \A i \in DOMAIN uiQueue :
          uiQueue[i].step \in Nat /\ uiQueue[i].at \in Nat /\ uiQueue[i].stale \in BOOLEAN
    /\ uiStep \in Nat
    /\ DOMAIN engVoices = EngineKeys
    /\ \A e \in EngineKeys : engVoices[e] \subseteq 1..engCreated
    /\ engStopped \subseteq 1..engCreated
    /\ engCreated \in 0..MaxEngVoices
    /\ ctxOpen \in 0..MaxContexts
    /\ masterGains = ctxOpen
    /\ engineSets = ctxOpen
    /\ audioHeld \in BOOLEAN
    /\ initAwaiting \in 0..MaxContexts
    /\ drumRefused \in BOOLEAN
    /\ DOMAIN trackUsed = 1..NumTracks

\* The state after construction: the fields of Sequencer, HiHatSynth and
\* AudioEngine, and the initial state of usePatternStore.
Init ==
    /\ isPlaying = FALSE
    /\ currentStep = 0
    /\ nextStepTime = 0
    /\ timerID = 0
    /\ pattern = NoPattern
    /\ onStepCallback = 0
    /\ liveTimers = 0
    /\ initialized = FALSE
    /\ now = 0
    /\ lastPass = <<>>
    /\ passNow = -1
    /\ passPattern = NoPattern
    /\ startTime = -1
    /\ stepsDone = 0
    /\ prevStep = -1
    /\ swapped = FALSE
    /\ hasStopped = FALSE
    /\ startRefused = FALSE
    /\ uiQueue = <<>>
    /\ uiStep = 0
    /\ hhVoices = {}
    /\ hhChoke = NoParams
    \* HiHatSynth.initializeDefaultParameters: the two parameters followed
    /\ hhParameters = [k \in {"chokeGroup", "decay"} |->
                         IF k = "decay" THEN DefaultDecay ELSE DefaultChokeGroup]
    /\ hhStopped = NoParams
    /\ hhDisconnected = {}
    /\ hhGroupOf = NoParams
    /\ hhEndTime = NoParams
    /\ hhConnected = FALSE
    /\ hhTimers = {}
    /\ hhLast = [voice |-> 0, time |-> -1, group |-> -1, overrides |-> {},
                 before |-> {}, stops |-> {}, disconnects |-> {}, atRegister |-> {},
                 after |-> {}]
    /\ engLast = [synthType |-> "none", velocity |-> 0, params |-> NoParams,
                  ramps |-> <<>>, threw |-> FALSE, connections |-> {}]
    /\ engVoices = [e \in EngineKeys |-> {}]
    /\ engStopped = {}
    /\ engCreated = 0
    /\ ctxOpen = 0
    /\ masterGains = 0
    /\ engineSets = 0
    /\ audioHeld = FALSE
    /\ initAwaiting = 0
    /\ drumRefused = FALSE
    /\ trackUsed = [t \in 1..NumTracks |-> [params |-> NoParams, used |-> NoParams]]
    /\ engSched = [stops |-> {}, endTime |-> -1, cleanupAt |-> -1]
    /\ storePattern = CreateDefaultPattern(1, 1)
    /\ storeBpm = 120
    /\ storeIsPlaying = FALSE
    /\ storeCurrentStep = 0
    /\ storeOrigin = "default"

\* initialize() between its guard and its await: a context with its clock at
\* 0, a master gain and, by initializeSynths(), 8 engines with empty voices
\* sets, each connected to that master gain, replace what the AudioEngine held.
CreateAudio ==
    /\ ctxOpen' = ctxOpen + 1
    /\ masterGains' = masterGains + 1
    /\ engineSets' = engineSets + 1
    /\ audioHeld' = TRUE
    /\ now' = 0
    /\ engVoices' = [e \in EngineKeys |-> {}]
    /\ hhVoices' = {}
    /\ hhChoke' = NoParams
    /\ hhParameters' = [k \in {"chokeGroup", "decay"} |->
                          IF k = "decay" THEN DefaultDecay ELSE DefaultChokeGroup]
    /\ hhConnected' = TRUE     \* hihatSynth.connect(this.masterGain)
    /\ UNCHANGED <<hhStopped, hhDisconnected, hhGroupOf, hhEndTime, hhTimers, hhLast,
                   engLast, engStopped, engCreated, drumRefused, trackUsed, engSched, storeVars>>

\* AudioEngine.initialize() with a context that is created running: the
\* call does not wait and ends with initialized = true.
Initialize ==
    /\ initialized \/ ctxOpen < MaxContexts
    /\ IF initialized
       THEN UNCHANGED <<initialized, now, startRefused, hhVars, restVars>>
       ELSE /\ initialized' = TRUE
            /\ startRefused' = FALSE
            /\ CreateAudio
            /\ UNCHANGED initAwaiting
    /\ UNCHANGED <<isPlaying, currentStep, nextStepTime, timerID, pattern,
                   onStepCallback, liveTimers, lastPass, passNow, passPattern,
                   startTime, stepsDone, prevStep, swapped, hasStopped, uiVars>>

\* The audio clock advances by one timer period while no interval timer is live.
AdvanceClock ==
    /\ initialized
    /\ liveTimers = 0
    /\ ~TimeoutReady(uiQueue, now)      \* a timeout that is ready runs first
    /\ now + lookahead <= MaxTime
    /\ now' = now + lookahead
    /\ UNCHANGED <<isPlaying, currentStep, nextStepTime, timerID, pattern,
                   onStepCallback, liveTimers, initialized, lastPass, passNow,
                   passPattern, startTime, stepsDone, prevStep, swapped, hasStopped,
                   startRefused, hhVars, restVars, uiVars>>

\* Sequencer.start() while playing or while the audio engine is not
\* initialized returns early, whatever its arguments.
StartIgnored ==
    /\ StartRefused(isPlaying, initialized)
    /\ startRefused' = (startRefused \/ ~initialized)
    /\ UNCHANGED <<isPlaying, currentStep, nextStepTime, timerID, pattern,
                   onStepCallback, liveTimers, initialized, now, lastPass, passNow,
                   passPattern, startTime, stepsDone, prevStep, swapped, hasStopped,
                   hhVars, restVars, uiVars>>

\* Sequencer.start(p, onStep), cb = 0 when onStep is omitted: what it does to
\* the transport, beginning at step 0 (this.currentStep = 0).
StartTransport(p, cb, rnd) ==
    /\ ~StartRefused(isPlaying, initialized)
    /\ \E r \in {ScheduleLoop(p, cb, 0, StartClock(now), 0, rnd,
                              initialized, now, <<>>)} :
             /\ pattern' = p
             /\ passPattern' = p
             /\ onStepCallback' = cb
             /\ isPlaying' = TRUE
             /\ currentStep' = r.currentStep
             /\ nextStepTime' = r.nextStepTime
             /\ lastPass' = r.log
             /\ passNow' = now
             /\ startTime' = now
             /\ stepsDone' = r.k
             /\ prevStep' = -1
             /\ swapped' = FALSE
             /\ uiQueue' = Outlived(uiQueue) \o QueuedBy(r.log, now)
             /\ Len(uiQueue') <= MaxQueued
             \* an error raised by schedule() leaves start() before setInterval
             /\ IF PassThrew(r.log)
                THEN UNCHANGED <<timerID, liveTimers>>
                ELSE timerID' = 1 /\ liveTimers' = liveTimers + 1
             /\ UNCHANGED <<initialized, now, hasStopped, startRefused, restVars, uiStep>>

\* The calls of a run of schedule() that reached the hi-hat synth, applied to
\* it.  Voice ids and timeout times stay within the bounds.
HhPass(log, tnow) ==
    /\ \E s \in {HhPassed(HhFull, hhParameters, CallsOf(log, "hihat"), tnow)} :
         /\ Cardinality(DOMAIN s.groupOf) <= MaxVoices
         /\ \A tm \in s.timers : tm.at <= HhMaxTime
         /\ hhVoices' = s.voices
         /\ hhChoke' = s.choke
         /\ hhStopped' = s.stopped
         /\ hhDisconnected' = s.disconnected
         /\ hhGroupOf' = s.groupOf
         /\ hhEndTime' = s.endTime
         /\ hhTimers' = s.timers
         /\ hhLast' = s.last
    /\ UNCHANGED <<hhParameters, hhConnected>>

\* Sequencer.start(p, onStep) seen from the transport: the engines' voices
\* are not followed.
Start(p, cb, rnd) == StartTransport(p, cb, rnd) /\ UNCHANGED hhVars

\* Sequencer.start(p, onStep) with the voices its first run of schedule()
\* starts on the hi-hat synth.
StartVoices(p, cb, rnd) == StartTransport(p, cb, rnd) /\ HhPass(lastPass', now)

\* stop() leaving the interval timer running.
Stop_KeepsTimer ==
    IF ~isPlaying
    THEN UNCHANGED vars
    ELSE /\ isPlaying' = FALSE
         /\ currentStep' = 0
         /\ timerID' = 0
         /\ lastPass' = <<>>
         /\ passNow' = -1
         /\ passPattern' = NoPattern
         /\ startTime' = -1
         /\ stepsDone' = 0
         /\ prevStep' = -1
         /\ swapped' = FALSE
         /\ hasStopped' = TRUE
         /\ uiStep' = StoppedDisplay
         /\ UNCHANGED <<nextStepTime, pattern, onStepCallback, liveTimers, initialized,
                        now, startRefused, hhVars, restVars, uiQueue>>

\* stop() ending the voices of the hi-hat synth and dropping their timeouts.
Stop_SilencesVoices ==
    IF ~isPlaying
    THEN UNCHANGED vars
    ELSE /\ isPlaying' = FALSE
         /\ currentStep' = 0
         /\ IF timerID # 0
            THEN timerID' = 0 /\ liveTimers' = liveTimers - 1
            ELSE UNCHANGED <<timerID, liveTimers>>
         /\ lastPass' = <<>>
         /\ passNow' = -1
         /\ passPattern' = NoPattern
         /\ startTime' = -1
         /\ stepsDone' = 0
         /\ prevStep' = -1
         /\ swapped' = FALSE
         /\ hasStopped' = TRUE
         /\ uiStep' = StoppedDisplay
         /\ hhVoices' = {}
         /\ hhTimers' = {}
         /\ UNCHANGED <<nextStepTime, pattern, onStepCallback, initialized, now,
                        startRefused, hhChoke, hhParameters, hhStopped, hhDisconnected,
                        hhGroupOf, hhEndTime, hhLast, hhConnected, restVars, uiQueue>>

\* Sequencer.stop(), and the consumer resetting the step it shows once stop()
\* has returned.  The timeouts set by scheduleStep are not cleared and the
\* callback stays registered.
Stop ==
    IF ~isPlaying
    THEN UNCHANGED vars
    ELSE /\ isPlaying' = FALSE
         /\ currentStep' = 0
         /\ IF timerID # 0
            THEN timerID' = 0 /\ liveTimers' = liveTimers - 1
            ELSE UNCHANGED <<timerID, liveTimers>>
         \* the observations of the run that ends are dropped
         /\ lastPass' = <<>>
         /\ passNow' = -1
         /\ passPattern' = NoPattern
         /\ startTime' = -1
         /\ stepsDone' = 0
         /\ prevStep' = -1
         /\ swapped' = FALSE
         /\ hasStopped' = TRUE
         /\ uiStep' = StoppedDisplay
         /\ UNCHANGED <<nextStepTime, pattern, onStepCallback, initialized, now,
                        startRefused, hhVars, restVars, uiQueue>>

\* How late a tick can be, in timer periods: before the clock moved, on time,
\* one period late, starved.
LateChoices == {0, 1, 2, MaxLate}

\* The interval timer fires late periods after the last reading of the clock
\* (0: before the clock moved; more than 1: the tick was starved): schedule(),
\* what it does to the transport.
TickTransport(late, rnd) ==
    /\ liveTimers > 0
    /\ late > 0 => ~TimeoutReady(uiQueue, now)   \* a timeout that is ready runs first
    /\ now + late * lookahead <= MaxTime
    /\ now' = now + late * lookahead
    /\ IF pattern = NoPattern \/ ~isPlaying
       THEN UNCHANGED <<isPlaying, currentStep, nextStepTime, timerID, pattern,
                        onStepCallback, liveTimers, initialized, lastPass, passNow,
                        passPattern, startTime, stepsDone, prevStep, swapped,
                        hasStopped, startRefused, restVars, uiVars>>
       ELSE \E r \in {ScheduleLoop(pattern, onStepCallback, currentStep, nextStepTime,
                                  stepsDone, rnd, initialized, now', <<>>)} :
                /\ currentStep' = r.currentStep
                /\ passPattern' = pattern
                /\ nextStepTime' = r.nextStepTime
                /\ stepsDone' = r.k
                /\ lastPass' = r.log
                /\ passNow' = now'
                /\ prevStep' = LastStepOf(lastPass, prevStep)
                /\ uiQueue' = uiQueue \o QueuedBy(r.log, now')
                /\ Len(uiQueue') <= MaxQueued
                /\ UNCHANGED <<isPlaying, timerID, pattern, onStepCallback,
                               liveTimers, initialized, startTime, swapped,
                               hasStopped, startRefused, restVars, uiStep>>

\* A tick seen from the transport: the engines' voices are not followed.
Tick(late, rnd) == TickTransport(late, rnd) /\ UNCHANGED hhVars

\* A tick with the voices its run of schedule() starts on the hi-hat synth.
TickVoices(late, rnd) ==
    /\ TickTransport(late, rnd)
    /\ IF pattern = NoPattern \/ ~isPlaying
       THEN UNCHANGED hhVars
       ELSE HhPass(lastPass', now')

\* A timeout set by scheduleStep runs: () => this.onStepCallback?.(step), with
\* the callback registered at that moment.  The consumer shows the step it is
\* handed; an error raised by the callback ends the timeout's task only.
OnStepTimeout(throws) ==
    /\ TimeoutReady(uiQueue, now)
    /\ \E i \in {NextTimeout(uiQueue)} :
          /\ uiQueue' = RemoveAt(uiQueue, i)
          /\ uiStep' = IF onStepCallback = 0 \/ throws THEN uiStep ELSE uiQueue[i].step
    /\ UNCHANGED <<isPlaying, currentStep, nextStepTime, timerID, pattern,
                   onStepCallback, liveTimers, initialized, now, lastPass, passNow,
                   passPattern, startTime, stepsDone, prevStep, swapped, hasStopped,
                   startRefused, hhVars, restVars>>

\* The patterns the control layer swaps in while the model runs.
SwapPatterns ==
    { PatternOf(<<120, 0>>, PlainLayout), PatternOf(FastTempo, <<"kick", "hat">>) }

\* updatePattern(p) restarting the cycle at step 0.
UpdatePattern_Restarts(p) ==
    /\ pattern' = p
    /\ swapped' = (swapped \/ p # pattern)
    /\ currentStep' = 0
    /\ UNCHANGED <<isPlaying, nextStepTime, timerID, onStepCallback,
                   liveTimers, initialized, now, lastPass, passNow, passPattern,
                   startTime, stepsDone, prevStep, hasStopped, startRefused, hhVars, restVars, uiVars>>

\* Sequencer.updatePattern(p).
UpdatePattern(p) ==
    /\ pattern' = p
    /\ swapped' = (swapped \/ p # pattern)
    /\ UNCHANGED <<isPlaying, currentStep, nextStepTime, timerID, onStepCallback,
                   liveTimers, initialized, now, lastPass, passNow, passPattern,
                   startTime, stepsDone, prevStep, hasStopped, startRefused, hhVars, restVars, uiVars>>

\* HiHatSynth.trigger(time, velocity, params): choke handling, then the new
\* voice is built, registered and given its auto-cleanup timeout.
HhTrigger(time, params) ==
    /\ initialized
    /\ Cardinality(DOMAIN hhGroupOf) < MaxVoices
    /\ CleanupAt(time, DecayOf(params, GetParameter(hhParameters, "decay", DefaultDecay)),
                 now) <= HhMaxTime
    /\ \E s \in {HhTriggered(HhFull, hhParameters, time, params, now)} :
         /\ hhVoices' = s.voices
         /\ hhChoke' = s.choke
         /\ hhStopped' = s.stopped
         /\ hhDisconnected' = s.disconnected
         /\ hhGroupOf' = s.groupOf
         /\ hhEndTime' = s.endTime
         /\ hhTimers' = s.timers
         /\ hhLast' = s.last
    /\ UNCHANGED <<seqVars, restVars, hhParameters, hhConnected>>

\* The auto-cleanup timeout stopping its voice whether or not the voice is
\* still in the active set.
HhCleanup_Unchecked(tm) ==
    /\ tm \in hhTimers
    /\ tm.at <= now
    /\ hhTimers' = hhTimers \ {tm}
    /\ \E s1 \in {VoiceStop(HhState, tm.voice, hhGroupOf[tm.voice], now)} :
         /\ hhVoices' = s1.voices
         /\ hhChoke' = s1.choke
         /\ hhStopped' = s1.stopped
         /\ hhDisconnected' = s1.disconnected
    /\ UNCHANGED <<seqVars, restVars, hhParameters, hhGroupOf, hhEndTime, hhConnected, hhLast>>

\* The auto-cleanup timeout of a voice fires: the voice is stopped at the
\* current clock value if it is still in the active set.
HhCleanup(tm) ==
    /\ tm \in hhTimers
    /\ tm.at <= now
    /\ hhTimers' = hhTimers \ {tm}
    /\ \E s1 \in {IF tm.voice \in hhVoices
                    THEN VoiceStop(HhState, tm.voice, hhGroupOf[tm.voice], now)
                    ELSE HhState} :
         /\ hhVoices' = s1.voices
         /\ hhChoke' = s1.choke
         /\ hhStopped' = s1.stopped
         /\ hhDisconnected' = s1.disconnected
    /\ UNCHANGED <<seqVars, restVars, hhParameters, hhGroupOf, hhEndTime, hhConnected, hhLast>>

\* BaseDrumSynth.dispose() on the hi-hat synth: every active voice is stopped
\* at the current clock value and the active set is cleared.
HhDispose ==
    /\ initialized
    /\ \E s1 \in {StopAll(HhState, hhVoices, hhGroupOf, now)} :
         /\ hhVoices' = {}
         /\ hhChoke' = s1.choke
         /\ hhStopped' = s1.stopped
         /\ hhDisconnected' = s1.disconnected
    /\ hhConnected' = FALSE
    /\ UNCHANGED <<seqVars, restVars, hhParameters, hhGroupOf, hhEndTime, hhTimers, hhLast>>

\* setParameter rewriting the choke group of the voices already triggered.
HhSetParameter_Retunes(name, value) ==
    /\ initialized
    /\ hhParameters' = MapSet(hhParameters, name, value)
    /\ hhGroupOf' = [v \in DOMAIN hhGroupOf |->
                       IF name = "chokeGroup" /\ v \in hhVoices
                       THEN value ELSE hhGroupOf[v]]
    /\ UNCHANGED <<seqVars, restVars, hhVoices, hhChoke, hhStopped, hhDisconnected,
                   hhEndTime, hhConnected, hhTimers, hhLast>>

\* BaseDrumSynth.setParameter(name, value) on the hi-hat synth.
HhSetParameter(name, value) ==
    /\ initialized
    /\ hhParameters' = MapSet(hhParameters, name, value)
    /\ UNCHANGED <<seqVars, restVars, hhVoices, hhChoke, hhStopped, hhDisconnected, hhGroupOf,
                   hhEndTime, hhConnected, hhTimers, hhLast>>

\* voice.stop(currentTime) called once more on a voice that was already
\* stopped, by whoever still holds the voice object.
HhStopAgain(v) ==
    /\ initialized
    /\ v \in DOMAIN hhStopped
    /\ Len(hhStopped[v]) >= 1
    /\ Len(hhStopped[v]) < MaxStops
    /\ \E s1 \in {VoiceStop(HhState, v, hhGroupOf[v], now)} :
         /\ hhVoices' = s1.voices
         /\ hhChoke' = s1.choke
         /\ hhStopped' = s1.stopped
         /\ hhDisconnected' = s1.disconnected
    /\ UNCHANGED <<seqVars, restVars, hhParameters, hhGroupOf, hhEndTime, hhConnected, hhTimers,
                   hhLast>>

\* The audio clock advances while the transport is idle.
HhAdvanceClock ==
    /\ initialized
    /\ now + scheduleAheadTime <= HhMaxTime
    /\ now' = now + scheduleAheadTime
    /\ UNCHANGED <<isPlaying, currentStep, nextStepTime, timerID, pattern,
                   onStepCallback, liveTimers, initialized, lastPass, passNow,
                   passPattern, startTime, stepsDone, prevStep, swapped, hasStopped,
                   startRefused, hhVars, restVars, uiVars>>

\* The velocities (tenths) and parameter overrides of the trigger calls made
\* on the engines.
EngineVelocities == {0, 5, 10}

EngineParamSets ==
    { NoParams, [k \in {"pitch"} |-> 0], [k \in {"pitch"} |-> 60],
      [k \in {"pitch"} |-> 150], [k \in {"tone"} |-> 0],
      [k \in {"pitch", "tone"} |-> 0] }

\* synth.trigger(currentTime, velocity, params) on an engine that keeps no
\* choke map (the hi-hat's trigger is HhTrigger).  this.voices.add(voice) is
\* its last statement before the cleanup timeout is set: an error raised by a
\* ramp ends trigger() before it.  engSched is what the call schedules for the
\* voice: the stop times, endTime and, from setTimeout(cleanup, (endTime -
\* currentTime) * 1000 + 100), the clock value at which the timeout can fire.
EngineTrigger(synthType, velocity, params) ==
    /\ initialized
    /\ audioHeld
    /\ engCreated < MaxEngVoices
    /\ engLast' = EngineVoice(synthType, velocity, params)
    /\ engVoices' = (IF engLast'.threw THEN engVoices
                      ELSE [engVoices EXCEPT ![synthType] = @ \cup {engCreated + 1}])
    /\ engCreated' = (IF engLast'.threw THEN engCreated ELSE engCreated + 1)
    /\ engSched' = (IF engLast'.threw THEN [stops |-> {}, endTime |-> -1, cleanupAt |-> -1]
                     ELSE LET endTime == VoiceEndTime(synthType, now, params)
                              delay == (endTime - now) + cleanupGrace
                          IN  [stops |-> GeneratorStops(synthType, now, params),
                               endTime |-> endTime,
                               cleanupAt |-> now + (IF delay > 0 THEN delay ELSE 0)])
    /\ UNCHANGED <<seqVars, hhVars, storeVars, engStopped, ctxOpen, masterGains,
                   engineSets, audioHeld, initAwaiting, drumRefused, trackUsed>>

\* AudioEngine.initialize() with a context that is created suspended, up to
\* its await of context.resume(): initialized is still false when it yields.
InitializeSuspended ==
    /\ ~initialized
    /\ ctxOpen < MaxContexts
    /\ initAwaiting < MaxContexts
    /\ CreateAudio
    /\ initAwaiting' = initAwaiting + 1
    /\ UNCHANGED <<isPlaying, currentStep, nextStepTime, timerID, pattern,
                   onStepCallback, liveTimers, initialized, lastPass, passNow,
                   passPattern, startTime, stepsDone, prevStep, swapped, hasStopped,
                   startRefused, uiVars>>

\* context.resume() settles and an initialize() call that waited for it
\* runs to its end.
InitializeResumed ==
    /\ initAwaiting > 0
    /\ initAwaiting' = initAwaiting - 1
    /\ initialized' = TRUE
    /\ UNCHANGED <<isPlaying, currentStep, nextStepTime, timerID, pattern,
                   onStepCallback, liveTimers, now, lastPass, passNow, passPattern,
                   startTime, stepsDone, prevStep, swapped, hasStopped, startRefused,
                   uiVars, hhVars, storeVars, engLast, engVoices, engStopped, engCreated,
                   ctxOpen, masterGains, engineSets, audioHeld, drumRefused, trackUsed, engSched>>

\* AudioEngine.dispose(): every engine of the synths map is disposed (its
\* voices stopped, its set cleared, its output disconnected), the map is
\* cleared, the master gain disconnected, the context closed.
Dispose ==
    /\ \E s1 \in {StopAll(HhState, hhVoices, hhGroupOf, now)} :
         /\ hhVoices' = {}
         /\ hhChoke' = s1.choke
         /\ hhStopped' = s1.stopped
         /\ hhDisconnected' = s1.disconnected
    /\ hhConnected' = FALSE
    /\ engStopped' = engStopped \cup UNION {engVoices[e] : e \in EngineKeys}
    /\ engVoices' = [e \in EngineKeys |-> {}]
    /\ IF audioHeld
       THEN /\ ctxOpen' = ctxOpen - 1
            /\ masterGains' = masterGains - 1
            /\ engineSets' = engineSets - 1
       ELSE UNCHANGED <<ctxOpen, masterGains, engineSets>>
    /\ audioHeld' = FALSE
    /\ initialized' = FALSE
    /\ UNCHANGED <<isPlaying, currentStep, nextStepTime, timerID, pattern,
                   onStepCallback, liveTimers, now, lastPass, passNow, passPattern,
                   startTime, stepsDone, prevStep, swapped, hasStopped, startRefused,
                   uiVars, hhParameters, hhGroupOf, hhEndTime, hhTimers, hhLast,
                   storeVars, engLast, engCreated, initAwaiting, drumRefused, trackUsed,
                   engSched>>

\* AudioEngine.triggerDrum(synthType, velocity, params) called from outside
\* a scheduling pass: it returns early while the engine is not initialized
\* or the synths map holds no engine under the key.
DrumCall(synthType, velocity, params) ==
    IF (IF audioHeld
        THEN TriggerDrum(1, synthType, velocity, params, now, initialized, now)
        ELSE <<>>) = <<>>
    THEN /\ drumRefused' = TRUE
         /\ UNCHANGED <<seqVars, hhVars, storeVars, engLast, engVoices, engStopped,
                        engCreated, ctxOpen, masterGains, engineSets, audioHeld,
                        initAwaiting, trackUsed, engSched>>
    ELSE EngineTrigger(synthType, velocity, params)

\* The recipe of a store action that edits the pattern.
StoreEdit(p) ==
    /\ storePattern' = p
    /\ storeOrigin' = "edited"
    /\ UNCHANGED <<storeBpm, storeIsPlaying, storeCurrentStep>>

\* A recipe that raised an error: the store keeps its state.
StoreThrows == UNCHANGED storeVars

ToggleStep(trackIndex, stepIndex) ==
    /\ IF HasStep(storePattern, trackIndex, stepIndex)
       THEN StoreEdit([storePattern EXCEPT
                         !.tracks[trackIndex + 1].steps[stepIndex + 1].active = ~@])
       ELSE StoreThrows
    /\ UNCHANGED <<seqVars, hhVars, engVars>>

SetStepVelocity(trackIndex, stepIndex, velocity) ==
    /\ IF HasStep(storePattern, trackIndex, stepIndex)
       THEN StoreEdit([storePattern EXCEPT
                         !.tracks[trackIndex + 1].steps[stepIndex + 1].velocity =
                             Clamp(0, 127, velocity)])
       ELSE StoreThrows
    /\ UNCHANGED <<seqVars, hhVars, engVars>>

SetStepProbability(trackIndex, stepIndex, probability) ==
    /\ IF HasStep(storePattern, trackIndex, stepIndex)
       THEN StoreEdit([storePattern EXCEPT
                         !.tracks[trackIndex + 1].steps[stepIndex + 1].probability =
                             Clamp(0, 100, probability)])
       ELSE StoreThrows
    /\ UNCHANGED <<seqVars, hhVars, engVars>>

SetBpm(bpm) ==
    /\ storePattern' = [storePattern EXCEPT !.bpm = Clamp(60, 300, bpm)]
    /\ storeBpm' = Clamp(60, 300, bpm)
    /\ storeOrigin' = "edited"
    /\ UNCHANGED <<storeIsPlaying, storeCurrentStep, seqVars, hhVars, engVars>>

SetSwing(swing) ==
    /\ StoreEdit([storePattern EXCEPT !.swing = Clamp(0, 10, swing)])
    /\ UNCHANGED <<seqVars, hhVars, engVars>>

\* step % state.pattern.steps: NaN when steps is 0 or not a number.
SetCurrentStep(step) ==
    /\ storeCurrentStep' = (IF storePattern.steps > 0 THEN step % storePattern.steps
                            ELSE NaN)
    /\ UNCHANGED <<storePattern, storeBpm, storeIsPlaying, storeOrigin, seqVars,
                   hhVars, engVars>>

SetTrackVolume(trackIndex, volume) ==
    /\ IF HasTrack(storePattern, trackIndex)
       THEN StoreEdit([storePattern EXCEPT
                         !.tracks[trackIndex + 1].volume = Clamp(0, 10, volume)])
       ELSE StoreThrows
    /\ UNCHANGED <<seqVars, hhVars, engVars>>

SetSynthParameter(trackIndex, param, value) ==
    /\ IF HasTrack(storePattern, trackIndex)
       THEN StoreEdit([storePattern EXCEPT
                         !.tracks[trackIndex + 1].synthParams =
                             MapSet(@, param, value)])
       ELSE StoreThrows
    /\ UNCHANGED <<seqVars, hhVars, engVars>>

ClearPattern ==
    /\ StoreEdit([storePattern EXCEPT
                    !.tracks = [i \in DOMAIN @ |->
                                  [@[i] EXCEPT
                                     !.steps = [j \in DOMAIN @ |->
                                                  [@[j] EXCEPT !.active = FALSE]]]]])
    /\ UNCHANGED <<seqVars, hhVars, engVars>>

\* randomizePattern, every step meeting the same three draws.
RandomizePattern(draws) ==
    /\ StoreEdit([storePattern EXCEPT
                    !.tracks = [i \in DOMAIN @ |->
                                  [@[i] EXCEPT
                                     !.steps = [j \in DOMAIN @ |->
                                                  RandomizeStep(@[j], i - 1, draws)]]]])
    /\ UNCHANGED <<seqVars, hhVars, engVars>>

\* loadPattern(p); origin records who called it.
LoadPattern(p, origin) ==
    /\ storePattern' = p
    /\ storeBpm' = p.bpm
    /\ storeIsPlaying' = FALSE
    /\ storeCurrentStep' = 0
    /\ storeOrigin' = origin

NewPattern(id, created) ==
    /\ LoadPattern(CreateDefaultPattern(id, created), "default")
    /\ UNCHANGED <<seqVars, hhVars, engVars>>

SetPatternName(name) ==
    /\ StoreEdit([storePattern EXCEPT !.name = name])
    /\ UNCHANGED <<seqVars, hhVars, engVars>>

DuplicatePattern(id, created) ==
    /\ Len(storePattern.name) < MaxNameLen
    /\ storePattern' = [storePattern EXCEPT !.id = id, !.created = created,
                                            !.name = Append(@, "(copy)")]
    /\ storeOrigin' = "edited"
    /\ UNCHANGED <<storeBpm, storeIsPlaying, storeCurrentStep, seqVars, hhVars, engVars>>

\* PatternMenu.handleFileSelect: importPatternFromJSON(file), then loadPattern
\* of what it resolved with; a rejected file changes nothing.
ImportFile(doc, origin, id, created) ==
    /\ Len(doc.name) < MaxNameLen
    /\ IF ImportAccepts(doc)
       THEN LoadPattern(ImportPatternFromJSON(doc, id, created), origin)
       ELSE UNCHANGED storeVars
    /\ UNCHANGED <<seqVars, hhVars, engVars>>

\* The page is opened with #pattern=<encoded>: App.initApp decodes the hash
\* and calls loadPattern on the store of the new session.
OpenURL(simplified, origin, id, created) ==
    /\ LoadPattern(DecodePatternFromURL(simplified, id, created), origin)
    /\ UNCHANGED <<seqVars, hhVars, engVars>>

\* The documents of files that were not exported from the store as it is: a
\* pattern with a track too few and a step too few, one with numbers out of
\* range, one without an id.
OddShapeFile ==
    [JsonPattern(CreateDefaultPattern(2, 1)) EXCEPT
        !.tracks = [i \in 1..(NumTracks - 1) |-> DefaultTrack(i, NumSteps - 1)]]

OutOfRangeFile ==
    [JsonPattern(CreateDefaultPattern(2, 1)) EXCEPT
        !.bpm = 1000, !.swing = 20, !.tracks[1].volume = 50,
        !.tracks[1].steps[1].velocity = 500, !.tracks[1].steps[1].probability = 300]

NoIdFile == [JsonPattern(CreateDefaultPattern(2, 1)) EXCEPT !.id = JsonNull]

ForeignFiles == {OddShapeFile, OutOfRangeFile, NoIdFile}

\* The cell, the track and the arguments the control layer edits with.
EditCell == <<0, 0>>

EditTrack == NumTracks - 1

RandomizeDraws == { <<0, 9, 9>>, <<9, 0, 0>> }

\* One draw per track; Math.random() returns, in tenths, 0 <= draw < 1.
Draws == [1..NumTracks -> {0, 9}]

\* The transport under a consumer that passes no onStep to start().
Next ==
    \/ Initialize
    \/ AdvanceClock
    \/ StartIgnored
    \/ \E p \in Patterns, rnd \in Draws : Start(p, 0, rnd)
    \/ Stop
    \/ \E late \in LateChoices, rnd \in Draws : Tick(late, rnd)
    \/ \E p \in SwapPatterns : UpdatePattern(p)

Spec == Init /\ [][Next]_vars

\* The hi-hat synth under every order of trigger calls, cleanup timeouts,
\* parameter changes and dispose, with the transport idle.
HhNext ==
    \/ Initialize
    \/ HhAdvanceClock
    \/ \E time \in {now, now + scheduleAheadTime}, params \in HhParamSets :
          HhTrigger(time, params)
    \/ \E tm \in hhTimers : HhCleanup(tm)
    \/ HhDispose
    \/ \E g \in ChokeGroups : HhSetParameter("chokeGroup", g)

SpecHiHat == Init /\ [][HhNext]_vars

\* The trigger calls of closed hi-hats, each naming its choke group.
HhClosedParamSets ==
    { [k \in {"decay", "chokeGroup"} |-> IF k = "decay" THEN DefaultDecay ELSE g] :
        g \in ChokeGroups }

\* The hi-hat synth triggered at the clock value, with repeated calls of
\* voice.stop() on voices stopped before.
HhStopsNext ==
    \/ Initialize
    \/ HhAdvanceClock
    \/ \E params \in HhClosedParamSets : HhTrigger(now, params)
    \/ \E tm \in hhTimers : HhCleanup(tm)
    \/ HhDispose
    \/ \E v \in 1..MaxVoices : HhStopAgain(v)

SpecHiHatStops == Init /\ [][HhStopsNext]_vars

\* The parameters setParameter() is called with: the two the hi-hat reads for
\* its bookkeeping and one its constructor does not set.
HhParamValues ==
    { <<"chokeGroup", g>> : g \in ChokeGroups }
      \cup { <<"decay", d>> : d \in Decays }
      \cup { <<"pitchDecay", DefaultDecay>> }

\* The trigger calls that leave the choke group, the decay or both to the
\* stored parameters.
HhSparseParamSets ==
    { NoParams, [k \in {"decay"} |-> 200], [k \in {"chokeGroup"} |-> 1] }

\* The hi-hat synth triggered at the clock value while its parameters are
\* changed.
HhParamsNext ==
    \/ Initialize
    \/ HhAdvanceClock
    \/ \E params \in HhSparseParamSets : HhTrigger(now, params)
    \/ \E tm \in hhTimers : HhCleanup(tm)
    \/ \E nv \in HhParamValues : HhSetParameter(nv[1], nv[2])

SpecHiHatParams == Init /\ [][HhParamsNext]_vars

\* The same, with the clock advancing and every cleanup timeout firing once
\* its delay has passed.
SpecHiHatFair ==
    /\ Init
    /\ [][HhNext]_vars
    /\ WF_vars(HhAdvanceClock)
    /\ \A v \in 1..MaxVoices :
          WF_vars(\E tm \in hhTimers : tm.voice = v /\ HhCleanup(tm))

\* The transport while the control layer swaps the long and the short form
\* of one pattern.
ResizeNext ==
    \/ Initialize
    \/ AdvanceClock
    \/ StartIgnored
    \/ \E p \in ResizePatterns, rnd \in Draws : Start(p, 0, rnd)
    \/ Stop
    \/ \E late \in LateChoices, rnd \in Draws : Tick(late, rnd)
    \/ \E p \in ResizePatterns : UpdatePattern(p)

SpecResize == Init /\ [][ResizeNext]_vars

\* The transport with a consumer that passes onStep to start(): the timeouts
\* scheduleStep sets run once the clock has reached them, in any order with
\* start(), stop() and the ticks.
NotifyPatterns ==
    { PatternOf(FastTempo, PlainLayout), PatternOf(<<120, 0>>, PlainLayout) }

NotifyNext ==
    \/ Initialize
    \/ AdvanceClock
    \/ \E p \in NotifyPatterns, cb \in {0, 1}, rnd \in Draws : Start(p, cb, rnd)
    \/ Stop
    \/ \E late \in LateChoices, rnd \in Draws : Tick(late, rnd)
    \/ \E throws \in BOOLEAN : OnStepTimeout(throws)

SpecNotify == Init /\ [][NotifyNext]_vars

\* The transport playing a hi-hat pattern, with the voices of the hi-hat
\* synth and their auto-cleanup timeouts.
VoicesNext ==
    \/ Initialize
    \/ AdvanceClock
    \/ \E rnd \in Draws : StartVoices(PatternOf(FastTempo, <<"kick", "hat">>), 0, rnd)
    \/ Stop
    \/ \E late \in LateChoices, rnd \in Draws : TickVoices(late, rnd)
    \/ \E tm \in hhTimers : HhCleanup(tm)

SpecVoices == Init /\ [][VoicesNext]_vars

\* usePatternStore.loadPattern of a saved pattern: the default pattern cut
\* down to its two hi-hat tracks, 'Closed HH' and 'Open HH'.
LoadHiHats ==
    /\ LoadPattern([CreateDefaultPattern(2, 2) EXCEPT
                      !.tracks = [i \in 1..NumTracks |-> DefaultTrack(i + 2, NumSteps)]],
                   "saved")
    /\ UNCHANGED <<seqVars, hhVars, engVars>>

\* SynthControls.handleParameterChange(param, value) for a selected hi-hat
\* track: setSynthParameter on the store, then audioEngine.updateSynthParams
\* (track.synthType, {[param]: value}), which sets the parameter on the engine
\* registered under the synth type.  The engine reads decay in the unit of
\* the clock, the store holds it in milliseconds.
KnobChange(trackIndex, param, value) ==
    /\ HasTrack(storePattern, trackIndex)
    /\ storePattern.tracks[trackIndex + 1].synthType = "hihat"
    /\ StoreEdit([storePattern EXCEPT
                    !.tracks[trackIndex + 1].synthParams = MapSet(@, param, value)])
    /\ IF audioHeld
       THEN hhParameters' = MapSet(hhParameters, param,
                                   IF param = "decay" THEN 2 * value ELSE value)
       ELSE UNCHANGED hhParameters
    /\ UNCHANGED <<seqVars, engVars, hhVoices, hhChoke, hhStopped, hhDisconnected,
                   hhGroupOf, hhEndTime, hhConnected, hhTimers, hhLast>>

\* scheduleStep dispatching one active step without overrides of a hi-hat
\* track of the store's pattern: triggerDrum(track.synthType, ...,
\* {...track.synthParams, ...step.parameters}) and HiHatSynth.trigger, which
\* reads decay in the unit of the clock.
TrackTrigger(trackIndex) ==
    /\ initialized
    /\ audioHeld
    /\ HasTrack(storePattern, trackIndex)
    /\ storePattern.tracks[trackIndex + 1].synthType = "hihat"
    /\ Cardinality(DOMAIN hhGroupOf) < MaxVoices
    /\ \E params \in
           { LET merged == MergeParams(storePattern.tracks[trackIndex + 1].synthParams,
                                       DefaultStep.parameters)
             IN  [k \in DOMAIN merged |->
                    IF k = "decay" THEN 2 * merged[k] ELSE merged[k]] } :
         /\ CleanupAt(now, HhReads(params, hhParameters).decay, now) <= HhMaxTime
         /\ \E s \in {HhTriggered(HhFull, hhParameters, now, params, now)} :
              /\ hhVoices' = s.voices
              /\ hhChoke' = s.choke
              /\ hhStopped' = s.stopped
              /\ hhDisconnected' = s.disconnected
              /\ hhGroupOf' = s.groupOf
              /\ hhEndTime' = s.endTime
              /\ hhTimers' = s.timers
              /\ hhLast' = s.last
         /\ trackUsed' = [trackUsed EXCEPT ![trackIndex + 1] =
                            [params |-> params, used |-> HhReads(params, hhParameters)]]
    /\ UNCHANGED <<seqVars, storeVars, hhParameters, hhConnected, engLast, engVoices,
                   engStopped, engCreated, ctxOpen, masterGains, engineSets,
                   audioHeld, initAwaiting, drumRefused, engSched>>

\* The pattern store under the actions of the control layer, with exports
\* read back in and share links reopened.
StoreNext ==
    \/ ToggleStep(EditCell[1], EditCell[2])
    \/ \E velocity \in {200, NaN} : SetStepVelocity(EditCell[1], EditCell[2], velocity)
    \/ SetStepProbability(EditCell[1], EditCell[2], -50)
    \/ SetBpm(400)
    \/ SetSwing(15)
    \/ SetCurrentStep(NumSteps + 1)
    \/ SetTrackVolume(EditTrack, -1)
    \/ SetSynthParameter(EditTrack, "pitch", 0)
    \/ ClearPattern
    \/ \E draws \in RandomizeDraws : RandomizePattern(draws)
    \/ \E id \in Ids, created \in Stamps : NewPattern(id, created)
    \/ \E name \in NonLatin1Names : SetPatternName(name)
    \/ \E id \in Ids, created \in Stamps : DuplicatePattern(id, created)
    \/ \E id \in Ids, created \in Stamps :
          ImportFile(JsonPattern(storePattern), "json", id, created)
    \/ \E doc \in ForeignFiles, id \in Ids, created \in Stamps :
          ImportFile(doc, "file", id, created)
    \/ \E id \in Ids, created \in Stamps :
          /\ ~EncodeFails(storePattern)
          /\ OpenURL(EncodePatternToURL(storePattern), "url", id, created)

SpecStore == Init /\ [][StoreNext]_vars

\* Every engine triggered with parameters from the knob ranges, the hi-hat
\* through its two tracks of the default pattern.  The parameters are the
\* ends of the knob ranges of SynthControls for the parameters that enter the
\* stop times, in the units of ParamOf; layers also at 3.5.
KnobRangeNext ==
    \/ Initialize
    \/ LoadHiHats
    \/ \E trackIndex \in 0..(NumTracks - 1) : TrackTrigger(trackIndex)
    \/ \E synthType \in EngineKeys, velocity \in {5} :
          \E params \in
             (CASE synthType = "clap" ->
                     { [k \in {"decay", "spread", "layers"} |->
                           IF k = "decay" THEN d ELSE IF k = "spread" THEN sp ELSE la] :
                         d \in {100, 600}, sp \in {20, 100}, la \in {20, 35, 50} }
                [] synthType = "kick" -> { [k \in {"decay"} |-> d] : d \in {200, 4000} }
                [] synthType = "tom" -> { [k \in {"decay"} |-> d] : d \in {200, 2000} }
                [] synthType = "rim" -> { [k \in {"decay"} |-> d] : d \in {60, 300} }
                [] OTHER -> { [k \in {"decay"} |-> d] : d \in {100, 1000} }) :
             EngineTrigger(synthType, velocity, params)

SpecKnobRange == Init /\ [][KnobRangeNext]_vars

\* The two hi-hat tracks of the default pattern under knob changes and
\* triggers, with the transport idle.  The knobs turned are 'color' (Hz) and
\* 'decay' (milliseconds), each to the low end of its range.
KnobNext ==
    \/ Initialize
    \/ LoadHiHats
    \/ \E trackIndex \in 0..(NumTracks - 1), param \in {"color", "decay"} :
          KnobChange(trackIndex, param, IF param = "color" THEN 5000 ELSE 20)
    \/ \E trackIndex \in 0..(NumTracks - 1) : TrackTrigger(trackIndex)

SpecKnobs == Init /\ [][KnobNext]_vars

\* The engines triggered one call at a time, with the transport idle.
EngNext ==
    \/ Initialize
    \/ \E synthType \in EngineKeys, velocity \in EngineVelocities,
          params \in EngineParamSets : EngineTrigger(synthType, velocity, params)

SpecEngines == Init /\ [][EngNext]_vars

\* AudioEngine.initialize() called any number of times, with contexts that
\* start running or suspended, and triggerDrum() calls in between.
InitNext ==
    \/ Initialize
    \/ InitializeSuspended
    \/ InitializeResumed
    \/ \E synthType \in EngineKeys, velocity \in EngineVelocities,
          params \in EngineParamSets : DrumCall(synthType, velocity, params)

SpecInitialize == Init /\ [][InitNext]_vars

\* The clock value up to which the transport is followed while the
\* AudioEngine is disposed and initialized again.
DisposeHorizon == 100

\* The transport and triggerDrum() calls while the AudioEngine is
\* initialized, disposed and initialized again.  Every random draw is 0, so
\* that every active step plays; the clock of a closed context stands still
\* between the ticks of the interval timer.
DisposeNext ==
    \/ Initialize
    \/ InitializeSuspended
    \/ InitializeResumed
    \/ Dispose
    \/ StartIgnored
    \/ \E p \in { PatternOf(FastTempo, PlainLayout),
                  PatternOf(FastTempo, <<"kick", "tom">>) } :
          Start(p, 0, [t \in 1..NumTracks |-> 0])
    \/ Stop
    \/ \E late \in {0, 1} :
          /\ audioHeld \/ late = 0
          /\ now + late * lookahead <= DisposeHorizon
          /\ Tick(late, [t \in 1..NumTracks |-> 0])
    \/ DrumCall("perc1", 5, NoParams)

SpecDispose == Init /\ [][DisposeNext]_vars

\* ================================================================ claims
\* The trigger calls of the last run of schedule(), each with its step record.
PassCalls ==
    UNION { { [rec |-> lastPass[i], call |-> lastPass[i].calls[j]] :
                j \in DOMAIN lastPass[i].calls } : i \in DOMAIN lastPass }

\* Is track t of pattern p, at step index step, past the active, mute and
\* solo checks?
Eligible(p, t, step) ==
    /\ p.tracks[t].steps[step + 1].active
    /\ ~p.tracks[t].mute
    /\ ((\E u \in DOMAIN p.tracks : p.tracks[u].solo) => p.tracks[t].solo)

\* C1: every trigger call of a dispatched step carries the due time of the
\* step (the accumulator value handed to scheduleStep), so the calls of two
\* steps dispatched in one run of schedule() carry different times.
C1_TriggerAtDueTime ==
    /\ \A d \in PassCalls : d.call.time = d.rec.time
    /\ \A i, j \in DOMAIN lastPass :
          i < j => \A a \in DOMAIN lastPass[i].calls, b \in DOMAIN lastPass[j].calls :
                      lastPass[i].calls[a].time # lastPass[j].calls[b].time

\* C2: with swing > 0 and the pattern unchanged since start(), the due time
\* of the k-th step is start + k * secondsPerStep for an even step index and
\* start + k * secondsPerStep + secondsPerStep * swing * 0.5 for an odd one.
C2_SwingOnOddStepsOnly ==
    (~swapped /\ passPattern # NoPattern /\ passPattern.swing > 0) =>
        \A i \in DOMAIN lastPass :
            lastPass[i].time =
                startTime + lastPass[i].k * (30000 \div passPattern.bpm)
                  + (IF lastPass[i].step % 2 = 1
                     THEN ((30000 \div passPattern.bpm) * passPattern.swing) \div 20
                     ELSE 0)

\* C3: when the trigger of one track raises an error, the forEach over the
\* tracks of that step is still completed and the cursor moves past the step.
C3_ThrowSkipsOneTrigger ==
    \A i \in DOMAIN lastPass :
        (\E j \in DOMAIN lastPass[i].calls : lastPass[i].calls[j].threw) =>
            /\ ~lastPass[i].threw
            /\ stepsDone > lastPass[i].k

\* C4: for every draw, a track past the active, mute and solo checks is not
\* triggered when the probability of its step is 0 and is triggered when it
\* is 1 (steps cut short by an error are left to C3).
C4_ProbabilityBounds ==
    \A i \in DOMAIN lastPass : \A t \in DOMAIN passPattern.tracks :
        LET r == lastPass[i]
            probability == passPattern.tracks[t].steps[r.step + 1].probability
            triggered == \E j \in DOMAIN r.calls : r.calls[j].track = t
        IN  Eligible(passPattern, t, r.step) =>
              /\ probability = 0 => ~triggered
              /\ (probability = 10 /\ ~r.threw) => triggered

\* C6: a muted track is never triggered, whatever its solo flag; while a track
\* of the pattern is soloed no track without solo is triggered; and a track is
\* triggered only at a step that is active.
C6_MuteSoloActive ==
    \A d \in PassCalls :
        LET track == passPattern.tracks[d.call.track] IN
        /\ ~track.mute
        /\ (\E u \in DOMAIN passPattern.tracks : passPattern.tracks[u].solo) => track.solo
        /\ track.steps[d.rec.step + 1].active

\* A step was dispatched in which a soloed track was triggered while an
\* active, unmuted track without solo was passed over.
C6_Witness ==
    \E i \in DOMAIN lastPass : \E t, u \in DOMAIN passPattern.tracks :
        /\ passPattern.tracks[t].solo
        /\ \E j \in DOMAIN lastPass[i].calls : lastPass[i].calls[j].track = t
        /\ ~passPattern.tracks[u].solo
        /\ ~passPattern.tracks[u].mute
        /\ passPattern.tracks[u].steps[lastPass[i].step + 1].active
        /\ \A j \in DOMAIN lastPass[i].calls : lastPass[i].calls[j].track # u

\* C7: with swing = 0 and the pattern unchanged since start(), the due times
\* of consecutive steps differ by exactly secondsPerStep = (60 / bpm) / 4,
\* whenever the ticks ran: the k-th step is due at start + k * secondsPerStep.
C7_StepInterval ==
    (~swapped /\ passPattern # NoPattern /\ passPattern.swing = 0) =>
        /\ \A i \in DOMAIN lastPass :
              lastPass[i].time = startTime + lastPass[i].k * (30000 \div passPattern.bpm)
        /\ \A i \in DOMAIN lastPass :
              i + 1 \in DOMAIN lastPass =>
                  lastPass[i + 1].time - lastPass[i].time = 30000 \div passPattern.bpm

\* A starved tick (not the run of schedule() inside start()) dispatched
\* several steps of an unswung pattern.
C7_Witness ==
    /\ ~swapped
    /\ passPattern # NoPattern
    /\ passPattern.swing = 0
    /\ prevStep >= 0
    /\ Len(lastPass) >= 3

\* C8: on a pattern unchanged since start(), steps are dispatched in cyclic
\* order 0, 1, ..., steps - 1, 0, ... with no index skipped or repeated, across
\* ticks and inside a tick; inside a step the trigger calls are in track order.
C8_CyclicOrder ==
    (~swapped /\ lastPass # <<>>) =>
        /\ lastPass[1].step =
              (IF prevStep = -1 THEN 0 ELSE (prevStep + 1) % passPattern.steps)
        /\ \A i \in DOMAIN lastPass :
              i + 1 \in DOMAIN lastPass =>
                  lastPass[i + 1].step = (lastPass[i].step + 1) % passPattern.steps
        /\ \A i \in DOMAIN lastPass : \A j \in DOMAIN lastPass[i].calls :
              j + 1 \in DOMAIN lastPass[i].calls =>
                  lastPass[i].calls[j].track < lastPass[i].calls[j + 1].track

\* C9: a run of schedule() dispatches exactly the steps due before the clock
\* value it read plus scheduleAheadTime, and leaves nextStepTime at or beyond
\* that bound.
C9_TickDispatchesAllDue ==
    passNow >= 0 =>
        /\ \A i \in DOMAIN lastPass : lastPass[i].time < passNow + scheduleAheadTime
        /\ nextStepTime >= passNow + scheduleAheadTime

\* C10: after every effective start(), also one that follows a stop(), the
\* transport is Running and the first step dispatched is step 0, due at the
\* clock value read by start().
C10_StartFromStepZero ==
    (startTime >= 0 /\ prevStep = -1) =>
        /\ isPlaying
        /\ lastPass # <<>>
        /\ lastPass[1].step = 0
        /\ lastPass[1].k = 0
        /\ lastPass[1].time = startTime

\* A start() that follows a stop(), at a clock value other than 0, while the
\* accumulator of the run before holds another value.
C10_Witness ==
    /\ hasStopped
    /\ isPlaying
    /\ prevStep = -1
    /\ startTime > 0
    /\ lastPass # <<>>
    /\ lastPass[1].time = startTime

\* C5: a trigger call with choke group g stops, at the time of the call, every
\* voice of group g that was in the active set, disconnects it and removes it
\* from the active set before the new voice is registered; the active voices
\* of every other group are neither stopped nor removed.
C5_ChokeSameGroupOnly ==
    hhLast.voice # 0 =>
        \A v \in hhLast.before :
            IF hhGroupOf[v] = hhLast.group
            THEN /\ <<v, hhLast.time>> \in hhLast.stops
                 /\ v \in hhLast.disconnects
                 /\ v \notin hhLast.atRegister
                 /\ v \notin hhLast.after
            ELSE /\ \A s \in hhLast.stops : s[1] # v
                 /\ v \notin hhLast.disconnects
                 /\ v \in hhLast.atRegister
                 /\ v \in hhLast.after

\* A trigger call, carrying a time ahead of the clock, met an active voice of
\* its own choke group and an active voice of another one.
C5_Witness ==
    /\ hhLast.voice # 0
    /\ hhLast.time > now
    /\ \E v, u \in hhLast.before :
          /\ hhGroupOf[v] = hhLast.group
          /\ hhGroupOf[u] # hhLast.group
          /\ v \notin hhVoices
          /\ u \in hhVoices

\* The fields of the transport that only start(), stop() and a tick write.
transportVars ==
    <<isPlaying, currentStep, nextStepTime, timerID, liveTimers, onStepCallback,
      lastPass>>

\* C11: after stop() the transport is stopped with the cursor at 0, no interval
\* timer live and nothing dispatched until the next start(); whatever is called
\* while it stays stopped (stop() again, stop() before any start) leaves the
\* transport as it was.
C11_StopResets ==
    /\ [](~isPlaying =>
            /\ currentStep = 0
            /\ timerID = 0
            /\ liveTimers = 0
            /\ lastPass = <<>>)
    /\ [][(~isPlaying /\ ~isPlaying') => UNCHANGED transportVars]_vars

\* A run that dispatched steps and moved the accumulator was stopped.
C11_Witness ==
    /\ hasStopped
    /\ ~isPlaying
    /\ nextStepTime > scheduleAheadTime
    /\ now > 0

\* C12: updatePattern(p) changes the pattern reference and nothing else of the
\* transport (no trigger, no change to what was dispatched); every later run of
\* schedule() evaluates its steps against the pattern held at that time.
C12_UpdatePatternOnlySwaps ==
    /\ [][(pattern' # pattern /\ isPlaying' = isPlaying) =>
            UNCHANGED <<transportVars, now, passNow, stepsDone>>]_vars
    /\ [][(isPlaying /\ isPlaying' /\ passNow' # passNow) =>
            /\ pattern' = pattern
            /\ \A i \in DOMAIN lastPass' : \A j \in DOMAIN lastPass'[i].calls :
                  LET c == lastPass'[i].calls[j]
                      track == pattern.tracks[c.track]
                  IN  /\ c.synthType = track.synthType
                      /\ c.velocity = track.steps[lastPass'[i].step + 1].velocity * track.volume
                      /\ Eligible(pattern, c.track, lastPass'[i].step)
            /\ \A i \in DOMAIN lastPass' :
                  i + 1 \in DOMAIN lastPass' =>
                      lastPass'[i + 1].time - lastPass'[i].time >= 30000 \div pattern.bpm]_vars

\* A tick after an updatePattern() that changed the pattern dispatched steps
\* of the new pattern.
C12_Witness ==
    /\ swapped
    /\ isPlaying
    /\ prevStep >= 0
    /\ passPattern = pattern
    /\ Len(lastPass) >= 2
    /\ \E i \in DOMAIN lastPass : lastPass[i].calls # <<>>

\* C13: while the audio engine is not initialized start() does nothing: the
\* transport is not playing, holds no timer, has dispatched no trigger and no
\* notification, and the refused call leaves pattern, callback, cursor and
\* accumulator as they were.
C13_StartNeedsEngine ==
    /\ [](~initialized =>
            /\ ~isPlaying
            /\ timerID = 0
            /\ liveTimers = 0
            /\ lastPass = <<>>
            /\ onStepCallback = 0
            /\ currentStep = 0
            /\ nextStepTime = 0)
    /\ [][(~initialized' /\ startRefused' /\ ~startRefused) =>
            UNCHANGED <<transportVars, pattern, now>>]_vars

\* A start() was refused because the engine is not initialized, with a
\* pattern already handed over by updatePattern().
C13_Witness ==
    /\ ~initialized
    /\ startRefused
    /\ pattern # NoPattern

\* C14: a track whose synth type has no registered engine is passed over
\* without an error: it gets no trigger, the other tracks of the step that
\* pass the checks are triggered, and the cursor moves past the step.
C14_UnknownSynthIsNoOp ==
    \A i \in DOMAIN lastPass : \A t \in DOMAIN passPattern.tracks :
        LET r == lastPass[i] IN
        passPattern.tracks[t].synthType \notin RegisteredSynths =>
            /\ \A j \in DOMAIN r.calls : r.calls[j].track # t
            /\ r.threw => \E j \in DOMAIN r.calls : r.calls[j].threw
            /\ ~r.threw => stepsDone > r.k
            /\ \A u \in DOMAIN passPattern.tracks :
                  (/\ u # t
                   /\ ~r.threw
                   /\ passPattern.tracks[u].synthType \in RegisteredSynths
                   /\ Eligible(passPattern, u, r.step)
                   /\ passPattern.tracks[u].steps[r.step + 1].probability = 10)
                  => \E j \in DOMAIN r.calls : r.calls[j].track = u

\* A step was dispatched in which a track of unknown synth type passed the
\* checks and a later track was triggered.
C14_Witness ==
    \E i \in DOMAIN lastPass : \E t, u \in DOMAIN passPattern.tracks :
        /\ t < u
        /\ passPattern.tracks[t].synthType \notin RegisteredSynths
        /\ Eligible(passPattern, t, lastPass[i].step)
        /\ \E j \in DOMAIN lastPass[i].calls : lastPass[i].calls[j].track = u
        /\ stepsDone > lastPass[i].k

\* C15: the parameters of a trigger are the track's synthParams overwritten
\* key by key by the overrides of the step, and a run of schedule() leaves the
\* pattern as it was, so a later step without overrides gets the track's values.
C15_ParamsMergedNotMutated ==
    /\ [](\A d \in PassCalls :
            LET track == passPattern.tracks[d.call.track]
                overrides == track.steps[d.rec.step + 1].parameters
            IN  /\ DOMAIN d.call.params = (DOMAIN track.synthParams) \cup (DOMAIN overrides)
                /\ \A k \in DOMAIN d.call.params :
                      d.call.params[k] = (IF k \in DOMAIN overrides
                                          THEN overrides[k] ELSE track.synthParams[k]))
    /\ [][(isPlaying /\ isPlaying') => pattern' = pattern \/ lastPass' = lastPass]_vars

\* One run of schedule() triggered a track at a step that overrides decay and
\* then at a later step without overrides, which got the track's own decay.
C15_Witness ==
    \E i, j \in DOMAIN lastPass : \E a \in DOMAIN lastPass[i].calls :
        \E b \in DOMAIN lastPass[j].calls :
            LET ca == lastPass[i].calls[a]
                cb == lastPass[j].calls[b]
                track == passPattern.tracks[ca.track]
            IN  /\ i < j
                /\ ca.track = cb.track
                /\ "decay" \in DOMAIN track.steps[lastPass[i].step + 1].parameters
                /\ "decay" \notin DOMAIN track.steps[lastPass[j].step + 1].parameters
                /\ ca.params["decay"] # track.synthParams["decay"]
                /\ cb.params["decay"] = track.synthParams["decay"]

\* C16: the velocity an engine receives is step.velocity / 127 * track.volume
\* (volume in tenths) and lies in [0, 1].
C16_VelocityScaled ==
    \A d \in PassCalls :
        LET track == passPattern.tracks[d.call.track]
            stepData == track.steps[d.rec.step + 1]
            v == d.call.engineVelocity
        IN  /\ v.den > 0
            /\ v.num * 127 * 10 = stepData.velocity * track.volume * v.den
            /\ 0 <= v.num
            /\ v.num <= v.den

\* One run of schedule() triggered a step of velocity 127 on a track at full
\* volume (engine velocity 1) and a step on a track of lower volume.
C16_Witness ==
    /\ \E d \in PassCalls :
          /\ passPattern.tracks[d.call.track].steps[d.rec.step + 1].velocity = 127
          /\ passPattern.tracks[d.call.track].volume = 10
          /\ d.call.engineVelocity.num = d.call.engineVelocity.den
    /\ \E d \in PassCalls :
          /\ passPattern.tracks[d.call.track].volume < 10
          /\ d.call.engineVelocity.num > 0
          /\ d.call.engineVelocity.num < d.call.engineVelocity.den

\* C17: every voice registered by a trigger leaves the active set: while it is
\* active its cleanup timeout is pending, the timeout cannot fire before the
\* end time of the voice, and (timeouts firing) the voice is eventually
\* removed, by a choke, by dispose or by the timeout.
C17_VoicesEventuallyRemoved ==
    /\ [](\A tm \in hhTimers : tm.at >= hhEndTime[tm.voice])
    /\ [](\A v \in hhVoices : \E tm \in hhTimers : tm.voice = v)
    /\ \A v \in 1..MaxVoices : (v \in hhVoices) ~> (v \notin hhVoices)

\* A voice that no choke and no dispose stopped was removed by its own
\* cleanup timeout, after its end time.
C17_Witness ==
    /\ hhConnected
    /\ \E v \in DOMAIN hhGroupOf :
          /\ v \notin hhVoices
          /\ \A tm \in hhTimers : tm.voice # v
          /\ Len(hhStopped[v]) = 1
          /\ hhStopped[v][1] >= hhEndTime[v] + cleanupGrace
          /\ hhLast.voice = v

\* C18: once dispose() has run (the output is disconnected) the active set and
\* the choke map are empty and every voice triggered so far has been stopped,
\* in that state and in every later one.
C18_DisposeIsTerminal ==
    (initialized /\ ~hhConnected) =>
        /\ hhVoices = {}
        /\ DOMAIN hhChoke = {}
        /\ \A v \in DOMAIN hhStopped : hhStopped[v] # <<>>

\* C19: a further call of voice.stop() on a voice that was stopped before
\* leaves the active set and the choke map as they were.
C19_StopTwiceIsNoOp ==
    [][\A v \in DOMAIN hhStopped :
         (Len(hhStopped[v]) >= 1 /\ Len(hhStopped'[v]) > Len(hhStopped[v])) =>
             /\ hhVoices' = hhVoices
             /\ hhChoke' = hhChoke]_vars

\* A voice was stopped a second time after a newer voice had taken its choke
\* group, and the newer voice still holds the group and is still active.
C19_Witness ==
    \E v \in DOMAIN hhStopped :
        /\ Len(hhStopped[v]) = 2
        /\ hhGroupOf[v] \in DOMAIN hhChoke
        /\ hhChoke[hhGroupOf[v]] # v
        /\ hhChoke[hhGroupOf[v]] \in hhVoices
        /\ v \in hhLast.before
        /\ v \notin hhLast.after

\* C20: setParameter(name, v) changes what getParameter(name) returns and
\* what later triggers without an override of name use, and nothing that a
\* voice already triggered has captured; getParameter returns the default it
\* is given for a name that was never set.
C20_SetParameterAffectsLaterTriggers ==
    /\ [](\A d \in {0, DefaultDecay} :
            "pitchDecay" \notin DOMAIN hhParameters =>
                GetParameter(hhParameters, "pitchDecay", d) = d)
    /\ [][hhParameters' # hhParameters =>
            /\ \E nv \in HhParamValues :
                  /\ GetParameter(hhParameters', nv[1], -1) = nv[2]
                  /\ GetParameter(hhParameters, nv[1], -1) # nv[2]
            /\ UNCHANGED <<hhGroupOf, hhEndTime, hhVoices, hhChoke, hhStopped,
                           hhDisconnected, hhTimers>>]_vars
    /\ [][hhLast'.voice # hhLast.voice =>
            LET v == hhLast'.voice IN
            /\ "chokeGroup" \notin hhLast'.overrides =>
                  hhGroupOf'[v] = GetParameter(hhParameters, "chokeGroup", DefaultChokeGroup)
            /\ "decay" \notin hhLast'.overrides =>
                  hhEndTime'[v] = hhLast'.time + endTimeTail
                                    + GetParameter(hhParameters, "decay", DefaultDecay)]_vars

\* The last voice was triggered without overrides, then both stored
\* parameters were changed while it is still active with what it captured.
C20_Witness ==
    /\ hhLast.voice \in hhVoices
    /\ hhLast.overrides = {}
    /\ hhGroupOf[hhLast.voice] # hhParameters["chokeGroup"]
    /\ hhEndTime[hhLast.voice] # hhLast.time + endTimeTail + hhParameters["decay"]
    /\ "pitchDecay" \in DOMAIN hhParameters

\* C22: every exponential ramp an engine asks for during trigger, gain
\* envelope or frequency sweep, has a target above zero, whatever the pitch,
\* velocity and tone of the call.
C22_RampTargetsPositive ==
    \A i \in DOMAIN engLast.ramps : engLast.ramps[i].target > 0

\* Is every track of p unmuted and not soloed, with probability 1 on every
\* step, and is p without swing?  The tracks are those of the default kit: a
\* registered synth type, and parameters no engine rejects.
PlainPlayback(p) ==
    /\ p # NoPattern
    /\ p.swing = 0
    /\ \A t \in DOMAIN p.tracks :
          /\ ~p.tracks[t].mute
          /\ ~p.tracks[t].solo
          /\ p.tracks[t].synthType \in RegisteredSynths
          /\ \A j \in DOMAIN p.tracks[t].steps :
                /\ p.tracks[t].steps[j].probability = 10
                /\ ~TriggerThrows(p.tracks[t].synthType,
                                  MergeParams(p.tracks[t].synthParams,
                                              p.tracks[t].steps[j].parameters))

\* C23: with swing = 0, all probabilities 1 and no mute or solo, every step
\* dispatched triggers each track exactly once if the step is active on it and
\* not at all otherwise, and the k-th step's triggers carry the time
\* start + k * secondsPerStep (at 120 bpm: 0, 0.125, 0.25, ... seconds).
C23_ActiveStepsOnceAtDueTime ==
    (~swapped /\ PlainPlayback(passPattern)) =>
        \A i \in DOMAIN lastPass : \A t \in DOMAIN passPattern.tracks :
            LET r == lastPass[i]
                mine == { j \in DOMAIN r.calls : r.calls[j].track = t }
            IN  /\ Cardinality(mine) =
                      (IF passPattern.tracks[t].steps[r.step + 1].active THEN 1 ELSE 0)
                /\ \A j \in mine :
                      r.calls[j].time = startTime + r.k * (30000 \div passPattern.bpm)

\* C25: a pattern written as JSON and read back in, by export and import or
\* by a share link, is equal to the original in every field of the pattern, of
\* its tracks and of their steps.
C25_RoundTripEqual ==
    [][(storeOrigin' \in {"json", "url"} /\ storeOrigin' # storeOrigin) =>
          storePattern' = storePattern]_vars

\* C26: the pattern of the store always has the full number of tracks, and
\* every track has as many steps as the pattern's step count.
C26_StoreShape ==
    /\ Len(storePattern.tracks) = NumTracks
    /\ \A i \in DOMAIN storePattern.tracks :
          Len(storePattern.tracks[i].steps) = storePattern.steps

\* C27: in the store bpm is within 60..300, swing within 0..1, every step
\* velocity within 0..127, every step probability within 0..1 and every track
\* volume within 0..1.
C27_StoreRanges ==
    /\ 60 <= storePattern.bpm /\ storePattern.bpm <= 300
    /\ 0 <= storePattern.swing /\ storePattern.swing <= 10
    /\ \A i \in DOMAIN storePattern.tracks :
          LET track == storePattern.tracks[i] IN
          /\ 0 <= track.volume /\ track.volume <= 10
          /\ \A j \in DOMAIN track.steps :
                /\ 0 <= track.steps[j].velocity /\ track.steps[j].velocity <= 127
                /\ 0 <= track.steps[j].probability /\ track.steps[j].probability <= 100

\* C28: the cursor stays inside the pattern held, 0 <= currentStep < steps,
\* also after updatePattern() swapped in a shorter pattern while running, and
\* no step is dispatched whose index lies beyond a track's step sequence.
C28_CursorInRange ==
    /\ pattern # NoPattern => (0 <= currentStep /\ currentStep < pattern.steps)
    /\ \A i \in DOMAIN lastPass : \A t \in DOMAIN passPattern.tracks :
          lastPass[i].step + 1 <= Len(passPattern.tracks[t].steps)

\* C29: in a snare voice the master gain is fed by the noise envelope gain,
\* and the noise source reaches it only through the high-pass filter and that
\* gain, never directly.
C29_SnareNoiseThroughEnvelope ==
    engLast.synthType = "snare" =>
        /\ <<"noiseGain", "masterGain">> \in engLast.connections
        /\ \A c \in engLast.connections :
              /\ c[1] = "noiseSource" => c[2] = "noiseFilter"
              /\ c[1] = "noiseFilter" => c[2] = "noiseGain"

\* A step in which a run of schedule() dispatched steps or set timeouts.
PassStep == Len(uiQueue') > Len(uiQueue) \/ stepsDone' > stepsDone

\* A step in which a timeout set by scheduleStep ran.
OnStepDelivered == Len(uiQueue') < Len(uiQueue)

\* C24: every step dispatched while a callback is registered sets exactly one
\* timeout for onStep(step), max(0, (dueTime - now) * 1000 - 10) ms after the
\* clock value of the pass, and none without a callback; the pass ends with
\* its timeouts still pending; a timeout that runs changes nothing of the
\* transport or of the triggers dispatched, even when onStep throws; and the
\* timeouts run in the order in which their steps were dispatched.
C24_OneNotificationPerStep ==
    /\ [][PassStep =>
            LET n == IF onStepCallback' # 0 THEN Len(lastPass') ELSE 0 IN
            /\ Len(uiQueue') = Len(uiQueue) + n
            /\ \A i \in 1..Len(uiQueue) :
                  uiQueue'[i].step = uiQueue[i].step /\ uiQueue'[i].at = uiQueue[i].at
            /\ \A i \in 1..n :
                  LET e == uiQueue'[Len(uiQueue) + i]
                      d == (lastPass'[i].time - passNow') - 20
                  IN  /\ e.step = lastPass'[i].step
                      /\ e.at = passNow' + (IF d > 0 THEN d ELSE 0)]_vars
    /\ [][OnStepDelivered =>
            UNCHANGED <<transportVars, pattern, now, nextStepTime, passNow, stepsDone>>]_vars
    /\ [][OnStepDelivered => uiQueue' = Tail(uiQueue)]_vars

\* C30: while the transport is stopped the consumer shows the step it reset
\* to on stop, and a timeout that calls onStep does so while the transport is
\* playing and in the run that set it.
C30_NoNotificationAfterStop ==
    /\ [](~isPlaying => uiStep = StoppedDisplay)
    /\ [][(OnStepDelivered /\ onStepCallback # 0) =>
            (isPlaying /\ ~uiQueue[NextTimeout(uiQueue)].stale)]_vars

\* C21: a stop() of the transport leaves the active voices of the engine and
\* the pending auto-cleanup timeouts as they are, and a voice leaves the active
\* set only when its own timeout runs or a later trigger chokes it.
C21_StopKeepsVoices ==
    /\ [][(isPlaying /\ ~isPlaying') => UNCHANGED <<hhVoices, hhTimers, hhStopped>>]_vars
    /\ [][\A v \in hhVoices \ hhVoices' :
            \/ \E tm \in hhTimers \ hhTimers' : tm.voice = v /\ tm.at <= now
            \/ \E u \in (DOMAIN hhGroupOf') \ (DOMAIN hhGroupOf) :
                  hhGroupOf'[u] = hhGroupOf[v]]_vars

\* The transport is stopped, after a run that triggered the hi-hat synth, and
\* the voice of that run is still active with its timeout pending: no voice is
\* triggered while the transport is stopped, so the voice was active when
\* stop() ran.
C21_Witness ==
    /\ hasStopped
    /\ ~isPlaying
    /\ hhLast.voice \in hhVoices
    /\ \E tm \in hhTimers : tm.voice = hhLast.voice /\ tm.at > now

\* C31: whatever the order of trigger calls (with their choke handling),
\* cleanup timeouts and dispose, stop() is called at most once on a voice, and
\* only on a voice that is in the active set: a timeout that finds its voice
\* gone stops nothing.
C31_StopAtMostOnce ==
    /\ [](\A v \in DOMAIN hhStopped : Len(hhStopped[v]) <= 1)
    /\ [][\A v \in DOMAIN hhStopped :
            Len(hhStopped'[v]) > Len(hhStopped[v]) => v \in hhVoices]_vars

\* A voice was stopped by the choke of a later trigger, before its end time,
\* and its cleanup timeout has since run without stopping it again.
C31_Witness ==
    /\ hhConnected
    /\ \E v \in DOMAIN hhStopped :
          /\ v \notin hhVoices
          /\ \A tm \in hhTimers : tm.voice # v
          /\ Len(hhStopped[v]) = 1
          /\ hhStopped[v][1] < hhEndTime[v]

\* C32: every entry of the choke map is an active voice, every active voice
\* is the entry of the group its closure captured, and so no two active voices
\* have the same choke group.
C32_ChokeMapMatchesVoices ==
    /\ \A g \in DOMAIN hhChoke : hhChoke[g] \in hhVoices
    /\ \A v \in hhVoices :
          hhGroupOf[v] \in DOMAIN hhChoke /\ hhChoke[hhGroupOf[v]] = v
    /\ \A v, u \in hhVoices : hhGroupOf[v] = hhGroupOf[u] => v = u

\* Two voices of different choke groups are active, after an earlier voice of
\* one of the groups was choked and a dispose was not called.
C32_Witness ==
    /\ hhConnected
    /\ Cardinality(hhVoices) = 2
    /\ \E v \in (DOMAIN hhGroupOf) \ hhVoices :
          /\ Len(hhStopped[v]) = 1
          /\ \E u \in hhVoices : hhGroupOf[u] = hhGroupOf[v]

\* C33: every step and every track a run of schedule() dispatched was read
\* from one pattern, the one the Sequencer holds when the run ends: each call
\* carries that pattern's synth type, velocity and parameters, and a track
\* whose step has probability 1 is triggered exactly when the step is active,
\* the track is not muted and, if any track of that pattern is soloed, the
\* track is soloed.
C33_OnePatternPerPass ==
    /\ [](passPattern # NoPattern =>
            \A i \in DOMAIN lastPass :
                LET r == lastPass[i] IN
                /\ \A j \in DOMAIN r.calls :
                      LET c == r.calls[j]
                          track == passPattern.tracks[c.track]
                          sd == track.steps[r.step + 1]
                      IN  /\ c.synthType = track.synthType
                          /\ c.velocity = Velocity(track, sd)
                          /\ c.params = MergeParams(track.synthParams, sd.parameters)
                /\ ~r.threw =>
                      \A t \in DOMAIN passPattern.tracks :
                          LET track == passPattern.tracks[t]
                              sd == track.steps[r.step + 1]
                          IN  (sd.probability = 10 /\ track.synthType \in RegisteredSynths) =>
                                  ((\E j \in DOMAIN r.calls : r.calls[j].track = t)
                                     <=> (/\ sd.active
                                          /\ ~track.mute
                                          /\ (HasSolo(passPattern) => track.solo))))
    /\ [][(passNow' # passNow /\ passNow' # -1) => passPattern' = pattern']_vars

\* After updatePattern() swapped in a pattern with a soloed track, one run of
\* schedule() dispatched two steps or more from it, with triggers in two.
C33_Witness ==
    /\ swapped
    /\ passPattern = pattern
    /\ HasSolo(passPattern)
    /\ \E i, j \in DOMAIN lastPass :
          i # j /\ lastPass[i].calls # <<>> /\ lastPass[j].calls # <<>>

\* C34: every trigger on an engine E registers exactly one new voice in E
\* (E's active set grows by one and no voice E already holds is stopped or
\* removed) and leaves the active sets of all other engines, the hi-hat's
\* and the other PercSynth's among them, unchanged.
C34_TriggerRegistersOneVoice ==
    [][(engLast' # engLast \/ engCreated' # engCreated) =>
          /\ Cardinality(engVoices'[engLast'.synthType])
                = Cardinality(engVoices[engLast'.synthType]) + 1
          /\ engVoices[engLast'.synthType] \subseteq engVoices'[engLast'.synthType]
          /\ engStopped' = engStopped
          /\ \A e \in EngineKeys \ {engLast'.synthType} : engVoices'[e] = engVoices[e]
          /\ hhVoices' = hhVoices]_vars

\* C35: after any sequence of start, stop and updatePattern calls at most one
\* tick timer is live, and one is live exactly when isPlaying is true; no
\* step taken while the transport stays Running (a start() among them)
\* creates a timer, replaces the callback or restarts the run.
C35_OneTimerWhilePlaying ==
    /\ [](liveTimers <= 1 /\ (liveTimers = 1 <=> isPlaying))
    /\ [][(isPlaying /\ isPlaying') =>
            /\ liveTimers' = liveTimers
            /\ timerID' = timerID
            /\ onStepCallback' = onStepCallback
            /\ startTime' = startTime]_vars

\* C36: however calls of AudioEngine.initialize() interleave, exactly one
\* context, one master gain and one set of 8 engines (each connected to that
\* master gain) exist once a call has created them.
C36_InitializeOnce ==
    /\ ctxOpen <= 1
    /\ masterGains <= 1
    /\ engineSets <= 1
    /\ initialized => (ctxOpen = 1 /\ masterGains = 1 /\ engineSets = 1)

\* C37: a knob change on one track never changes the parameter values later
\* triggers of a different track use, also when both tracks share the hi-hat
\* engine: two triggers of a track whose own parameters are the same read
\* the same values.
C37_KnobsStayPerTrack ==
    [][\A t \in 1..NumTracks :
          (/\ trackUsed'[t] # trackUsed[t]
           /\ trackUsed[t] # [params |-> NoParams, used |-> NoParams]
           /\ trackUsed'[t].params = trackUsed[t].params)
             => trackUsed'[t].used = trackUsed[t].used]_vars

C39_DisposedIsOff ==
    /\ [](~audioHeld => ~initialized)
    /\ [][(~audioHeld /\ ~audioHeld') =>
            /\ engCreated' = engCreated
            /\ DOMAIN hhGroupOf' = DOMAIN hhGroupOf
            /\ lastPass' # lastPass =>
                  \A i \in DOMAIN lastPass' :
                     lastPass'[i].calls = <<>> /\ ~lastPass'[i].threw
            /\ ~isPlaying => ~isPlaying'
            /\ (isPlaying /\ isPlaying') => liveTimers' = liveTimers]_vars
    /\ [][(~audioHeld /\ audioHeld') =>
            /\ \A e \in EngineKeys : engVoices'[e] = {}
            /\ hhVoices' = {}
            /\ hhConnected']_vars

====
